---- MODULE Spec2Model ----
(***************************************************************************)
(* Model of the Naver finance/news spiders (HCI_GPUPlease): the date,      *)
(* text and URL helpers that are copied across the spider files, the       *)
(* de-duplication pipeline and the cutoff-driven list/article callbacks.   *)
(*                                                                         *)
(* A text is a sequence of one-character strings; Python's None is the     *)
(* value None below, whatever the type of the optional value.              *)
(***************************************************************************)
EXTENDS Integers, Sequences, FiniteSets, TLC

VARIABLES
    date_case,      \* the calendar fields a date text was written from
    date_text,      \* the text handed to a date parser
    date_out,       \* what a date parser made of date_text
    clean_in,       \* the text handed to _clean
    clean_out,      \* what _clean made of clean_in
    url_case,       \* the article and the URL variant it is reached by
    url_req,        \* the URL of the response the next callback receives
    url_out,        \* the spider at work, its stage and the record it emitted
    seen_ids,       \* DedupePipeline.seen_ids
    submitted,      \* the items handed to process_item so far
    outcomes,       \* what process_item did with each of them
    since_days,     \* finance_test item-news: the since_days argument
    cutoff_date,    \* self.cutoff_date
    articles_seen,  \* self.articles_seen
    requests,       \* the requests the scheduler holds
    emitted,        \* the records the spider has yielded
    last_list,      \* the list page the last callback parsed, and what it yielded
    body_page,      \* the body containers of an article page
    body_out,       \* the spider that read the page and its texts field
    report_variant, \* the report spider at work: the one with the date cutoff or the one without
    report_requests, \* the list requests the report spider has scheduled
    section_seen,   \* self.section_seen
    total_pages,    \* self.total_pages
    pages_processed, \* self.pages_processed
    report_list,    \* the list page parse_report_list parsed last, and what it yielded
    codes_file,     \* the entity-code file: whether it exists, and its decoded bytes
    codes_out,      \* the spider that started, its arguments, its error and its seed requests
    end_page,       \* board spider: self.end_page, 0 for None
    seen_nids,      \* self.seen_nids of the code
    board_requests, \* the requests the board spider has scheduled
    board_emitted,  \* the records the board spider has yielded, over every run
    board_list,     \* the list page parse_list parsed last, and what it yielded
    board_run,      \* the run at work: the crawl, or a later re-crawl of the same board
    hci_spider,     \* the item-news spider without URL de-duplication at work: HCI or crawler
    max_pages,      \* self.max_pages: <<>> for None, <<n>> for the integer n
    hci_since_days, \* self.since_days, 0 for None
    hci_requests,   \* the list requests the spider has scheduled and not yet answered
    hci_listed,     \* every list request issued so far, with the page whose callback issued it
    hci_list,       \* the list page parse_list parsed last, and what it yielded
    gen_spider,     \* the spider whose list callbacks run as generators: news, board or item-news
    gens,           \* the list callbacks in progress: the code, the keys of the rows, the row to read next, the key yielded last
    seen_keys,      \* seen_urls, seen_nids or articles_seen
    detail_requests, \* the detail requests yielded, each with the generator and row that yielded it
    det_requests,   \* the detail and iframe requests of the board spider waiting for their response
    det_fingerprints, \* the URLs the scheduler has taken, by which it drops a repeated request
    det_records,    \* the records emitted for each post, in order
    ms_codes,       \* self._codes of the stock-code spider
    ms_requests,    \* the list pages requested and not yet answered
    ms_log,         \* the list pages requested so far, in order
    ms_list,        \* the list page parse_list parsed last: its last-page link, its page links, and whether it asked for the next page
    nat_spider,     \* the spider crawling without a page ceiling: item-news, board or archive
    nat_site,       \* the list pages the site has for the code or date, and what it answers beyond them
    nat_requests,   \* the list pages requested and not yet answered
    nat_top,        \* the highest list page requested so far
    sec_spider,     \* the section-mode news spider: finance_test or crawler
    sec_max,        \* max_headlines, max_latest and max_pages (<<>> for None, <<n>> for the integer n)
    cnt_headline,   \* self.cnt_headline, by section
    cnt_latest,     \* self.cnt_latest, by section
    seen_urls,      \* self.seen_urls
    sec_articles,   \* the article requests scheduled, each with its section and list type
    sec_requests,   \* the section pages requested and not yet answered
    sec_listed,     \* every section page requested so far
    sh_seen,        \* self.articles_seen of the item-news spider crawling two codes
    sh_requests,    \* the list and article requests scheduled and not yet answered
    sh_fetched,     \* every article request made so far
    sh_emitted,     \* the records emitted, by article URL and stock code
    sh_first        \* for every article URL, the code whose list row with it was read first

dateVars == <<date_case, date_text, date_out>>
cleanVars == <<clean_in, clean_out>>
urlVars == <<url_case, url_req, url_out>>
pipeVars == <<seen_ids, submitted, outcomes>>
crawlVars == <<since_days, cutoff_date, articles_seen, requests, emitted, last_list>>
bodyVars == <<body_page, body_out>>
reportVars == <<report_variant, report_requests, section_seen, total_pages, pages_processed, report_list>>
codesVars == <<codes_file, codes_out>>
boardVars == <<end_page, seen_nids, board_requests, board_emitted, board_list, board_run>>
hciVars == <<hci_spider, max_pages, hci_since_days, hci_requests, hci_listed, hci_list>>
genVars == <<gen_spider, gens, seen_keys, detail_requests>>
detVars == <<det_requests, det_fingerprints, det_records>>
msVars == <<ms_codes, ms_requests, ms_log, ms_list>>
natVars == <<nat_spider, nat_site, nat_requests, nat_top>>
secVars == <<sec_spider, sec_max, cnt_headline, cnt_latest, seen_urls, sec_articles, sec_requests, sec_listed>>
shVars == <<sh_seen, sh_requests, sh_fetched, sh_emitted, sh_first>>
vars == <<dateVars, cleanVars, urlVars, pipeVars, crawlVars, bodyVars, reportVars, codesVars, boardVars, hciVars, genVars, detVars, msVars, natVars, secVars, shVars>>

\* the variables each part of the model leaves alone
notDate == <<cleanVars, urlVars, pipeVars, crawlVars, bodyVars, reportVars, codesVars, boardVars, hciVars, genVars, detVars, msVars, natVars, secVars, shVars>>
notClean == <<dateVars, urlVars, pipeVars, crawlVars, bodyVars, reportVars, codesVars, boardVars, hciVars, genVars, detVars, msVars, natVars, secVars, shVars>>
notUrl == <<dateVars, cleanVars, pipeVars, crawlVars, bodyVars, reportVars, codesVars, boardVars, hciVars, genVars, detVars, msVars, natVars, secVars, shVars>>
notPipe == <<dateVars, cleanVars, urlVars, crawlVars, bodyVars, reportVars, codesVars, boardVars, hciVars, genVars, detVars, msVars, natVars, secVars, shVars>>
notCrawl == <<dateVars, cleanVars, urlVars, pipeVars, bodyVars, reportVars, codesVars, boardVars, hciVars, genVars, detVars, msVars, natVars, secVars, shVars>>
notBody == <<dateVars, cleanVars, urlVars, pipeVars, crawlVars, reportVars, codesVars, boardVars, hciVars, genVars, detVars, msVars, natVars, secVars, shVars>>
notReport == <<dateVars, cleanVars, urlVars, pipeVars, crawlVars, bodyVars, codesVars, boardVars, hciVars, genVars, detVars, msVars, natVars, secVars, shVars>>
notCodes == <<dateVars, cleanVars, urlVars, pipeVars, crawlVars, bodyVars, reportVars, boardVars, hciVars, genVars, detVars, msVars, natVars, secVars, shVars>>
notBoard == <<dateVars, cleanVars, urlVars, pipeVars, crawlVars, bodyVars, reportVars, codesVars, hciVars, genVars, detVars, msVars, natVars, secVars, shVars>>
notHci == <<dateVars, cleanVars, urlVars, pipeVars, crawlVars, bodyVars, reportVars, codesVars, boardVars, genVars, detVars, msVars, natVars, secVars, shVars>>
notGen == <<dateVars, cleanVars, urlVars, pipeVars, crawlVars, bodyVars, reportVars, codesVars, boardVars, hciVars, detVars, msVars, natVars, secVars, shVars>>
notDet == <<dateVars, cleanVars, urlVars, pipeVars, crawlVars, bodyVars, reportVars, codesVars, boardVars, hciVars, genVars, msVars, natVars, secVars, shVars>>
notMs == <<dateVars, cleanVars, urlVars, pipeVars, crawlVars, bodyVars, reportVars, codesVars, boardVars, hciVars, genVars, detVars, natVars, secVars, shVars>>
notNat == <<dateVars, cleanVars, urlVars, pipeVars, crawlVars, bodyVars, reportVars, codesVars, boardVars, hciVars, genVars, detVars, msVars, secVars, shVars>>
notSec == <<dateVars, cleanVars, urlVars, pipeVars, crawlVars, bodyVars, reportVars, codesVars, boardVars, hciVars, genVars, detVars, msVars, natVars, shVars>>
notSh == <<dateVars, cleanVars, urlVars, pipeVars, crawlVars, bodyVars, reportVars, codesVars, boardVars, hciVars, genVars, detVars, msVars, natVars, secVars>>

None == <<"None">>

(***************************************************************************)
(* Characters and texts                                                    *)
(***************************************************************************)
Digits == <<"0", "1", "2", "3", "4", "5", "6", "7", "8", "9">>
DigitChars == {Digits[i] : i \in 1..10}
NBSP == "nbsp"
SpaceChars == {" ", "\t", "\n", NBSP}

IsDigit(c) == c \in DigitChars
IsSpace(c) == c \in SpaceChars
DigitVal(c) == (CHOOSE i \in 1..10 : Digits[i] = c) - 1

\* s[i], or an end marker outside the text
At(s, i) == IF i >= 1 /\ i <= Len(s) THEN s[i] ELSE "EOF"

RECURSIVE IntOf(_)
\* int(): the value of a text of decimal digits
IntOf(s) == IF s = <<>> THEN 0
            ELSE 10 * IntOf(SubSeq(s, 1, Len(s) - 1)) + DigitVal(s[Len(s)])

\* f"{n:02d}" and f"{n:04d}"
Fmt02(n) == IF n < 100 THEN <<Digits[(n \div 10) + 1], Digits[(n % 10) + 1]>>
            ELSE <<Digits[(n \div 100) + 1], Digits[((n \div 10) % 10) + 1], Digits[(n % 10) + 1]>>
Fmt04(n) == <<Digits[(n \div 1000) + 1], Digits[((n \div 100) % 10) + 1],
              Digits[((n \div 10) % 10) + 1], Digits[(n % 10) + 1]>>
\* str(n) for 0 <= n < 100
Fmt1(n) == IF n < 10 THEN <<Digits[n + 1]>> ELSE Fmt02(n)

\* not s: None or the empty text
Falsy(s) == s = None \/ s = <<>>

RECURSIVE LStrip(_)
LStrip(s) == IF s # <<>> /\ IsSpace(s[1]) THEN LStrip(Tail(s)) ELSE s
RECURSIVE RStrip(_)
RStrip(s) == IF s # <<>> /\ IsSpace(s[Len(s)]) THEN RStrip(SubSeq(s, 1, Len(s) - 1)) ELSE s
\* str.strip()
Strip(s) == RStrip(LStrip(s))

(***************************************************************************)
(* datetime.date                                                           *)
(***************************************************************************)
NoDate == [kind |-> "none", y |-> 0, m |-> 0, d |-> 0]
ValueError == [kind |-> "ValueError", y |-> 0, m |-> 0, d |-> 0]

IsLeap(y) == (y % 4 = 0 /\ y % 100 # 0) \/ y % 400 = 0
DaysInMonth(y, m) == IF m = 2 THEN (IF IsLeap(y) THEN 29 ELSE 28)
                     ELSE IF m \in {4, 6, 9, 11} THEN 30 ELSE 31
ValidDate(y, m, d) == /\ y >= 1 /\ y <= 9999
                      /\ m >= 1 /\ m <= 12
                      /\ d >= 1 /\ d <= DaysInMonth(y, m)

\* date(y, m, d): the date, or the ValueError the constructor raises
Date(y, m, d) == IF ValidDate(y, m, d) THEN [kind |-> "date", y |-> y, m |-> m, d |-> d]
                 ELSE ValueError

\* a < b on dates
DateLT(a, b) == \/ a.y < b.y
                \/ a.y = b.y /\ a.m < b.m
                \/ a.y = b.y /\ a.m = b.m /\ a.d < b.d
DateGE(a, b) == ~DateLT(a, b)

(***************************************************************************)
(* re.search(r"(\d{N})[.\-/](\d{1,2})[.\-/](\d{1,2})", text)               *)
(***************************************************************************)
DateSeps == {".", "-", "/"}

\* where the month and the day groups start when the year group starts at i
\* (\d{1,2} is greedy: two digits whenever the second character is a digit)
MonthAt(i, ylen) == i + ylen + 1
MonthLen(s, i, ylen) == IF IsDigit(At(s, MonthAt(i, ylen) + 1)) THEN 2 ELSE 1
DayAt(s, i, ylen) == MonthAt(i, ylen) + MonthLen(s, i, ylen) + 1
DayLen(s, i, ylen) == IF IsDigit(At(s, DayAt(s, i, ylen) + 1)) THEN 2 ELSE 1

\* the separator class written without the slash: [.\-]
MatchesAt_NoSlash(s, i, ylen) ==
    /\ \A k \in i..(i + ylen - 1) : IsDigit(At(s, k))
    /\ At(s, i + ylen) \in {".", "-"}
    /\ IsDigit(At(s, MonthAt(i, ylen)))
    /\ At(s, MonthAt(i, ylen) + MonthLen(s, i, ylen)) \in {".", "-"}
    /\ IsDigit(At(s, DayAt(s, i, ylen)))

MatchesAt(s, i, ylen) ==
    /\ \A k \in i..(i + ylen - 1) : IsDigit(At(s, k))
    /\ At(s, i + ylen) \in DateSeps
    /\ IsDigit(At(s, MonthAt(i, ylen)))
    /\ At(s, MonthAt(i, ylen) + MonthLen(s, i, ylen)) \in DateSeps
    /\ IsDigit(At(s, DayAt(s, i, ylen)))

\* the leftmost match: <<year, month, day>> as integers, or NoMatch
NoMatch == <<>>
DateSearch(s, ylen) ==
    LET hits == {i \in 1..Len(s) : MatchesAt(s, i, ylen)}
    IN  IF hits = {} THEN NoMatch
        ELSE LET i == CHOOSE h \in hits : \A o \in hits : h <= o
                 mo == MonthAt(i, ylen)
                 da == DayAt(s, i, ylen)
             IN  <<IntOf(SubSeq(s, i, i + ylen - 1)),
                   IntOf(SubSeq(s, mo, mo + MonthLen(s, i, ylen) - 1)),
                   IntOf(SubSeq(s, da, da + DayLen(s, i, ylen) - 1))>>

(***************************************************************************)
(* The date parsers of the spiders                                         *)
(***************************************************************************)
Century == 2000
PrevCentury == 1900
PivotYear == 70

\* finance_test/spiders/naver_item_news.py _to_date: four-digit year first,
\* then a two-digit year read as 2000+YY; date() is not guarded
ItemNews_to_date(text) ==
    IF Falsy(text) THEN NoDate
    ELSE LET m4 == DateSearch(text, 4)
             m2 == DateSearch(text, 2)
         IN  IF m4 # NoMatch THEN Date(m4[1], m4[2], m4[3])
             ELSE IF m2 # NoMatch THEN Date(Century + m2[1], m2[2], m2[3])
             ELSE NoDate

\* try: return date(y, mo, d) / except ValueError: return None
DateOrNone(y, m, d) == IF Date(y, m, d) = ValueError THEN NoDate ELSE Date(y, m, d)

\* the pivot compared with <= instead of <
HCI_two_digit_year_PivotLE(y) == IF y <= PivotYear THEN y + Century ELSE y + PrevCentury

\* y += 2000 if y < 70 else 1900
HCI_two_digit_year(y) == IF y < PivotYear THEN y + Century ELSE y + PrevCentury

\* HCI_GPUPlease/finance_test/spiders/naver_item_news.py _to_date
HCI_to_date(text) ==
    IF Falsy(text) THEN NoDate
    ELSE LET t == Strip(text)
             m4 == DateSearch(t, 4)
             m2 == DateSearch(t, 2)
         IN  IF m4 # NoMatch THEN DateOrNone(m4[1], m4[2], m4[3])
             ELSE IF m2 # NoMatch THEN DateOrNone(HCI_two_digit_year(m2[1]), m2[2], m2[3])
             ELSE NoDate

\* finance_test/spiders/naver_news_spider.py _to_date: four-digit year only
News_to_date(text) ==
    IF Falsy(text) THEN NoDate
    ELSE LET m4 == DateSearch(text, 4)
         IN  IF m4 = NoMatch THEN NoDate ELSE Date(m4[1], m4[2], m4[3])

RECURSIVE SplitJoin(_)
\* " ".join(s.split())
SplitJoin(s) ==
    LET t == LStrip(s)
        n == IF \E i \in 1..Len(t) : IsSpace(t[i])
             THEN (CHOOSE i \in 1..Len(t) : IsSpace(t[i]) /\ \A j \in 1..(i - 1) : ~IsSpace(t[j])) - 1
             ELSE Len(t)
        rest == SplitJoin(SubSeq(t, n + 1, Len(t)))
    IN  IF t = <<>> THEN <<>>
        ELSE IF rest = <<>> THEN SubSeq(t, 1, n)
        ELSE SubSeq(t, 1, n) \o <<" ">> \o rest

\* finance_test/spiders/naver_spider.py NaverSpider._parse_to_date
Board_parse_to_date(s) ==
    IF Falsy(s) THEN NoDate
    ELSE LET m4 == DateSearch(SplitJoin(s), 4)
         IN  IF m4 = NoMatch THEN NoDate ELSE Date(m4[1], m4[2], m4[3])

(***************************************************************************)
(* Date texts under test: a text written from calendar fields in one of    *)
(* the forms the list pages show, or a text that holds no date pattern.    *)
(***************************************************************************)
TimeSuffix == <<" ", "0", "9", ":", "1", "0">>

\* the text of a case: year (4 or 2 digits), separator, month, separator,
\* day, the month and day zero-padded or not, then an optional time
FormatCase(c) ==
    (IF c.ylen = 4 THEN Fmt04(c.y) ELSE Fmt02(c.y))
    \o <<c.sep1>> \o (IF c.pad THEN Fmt02(c.m) ELSE Fmt1(c.m))
    \o <<c.sep2>> \o (IF c.pad THEN Fmt02(c.d) ELSE Fmt1(c.d))
    \o (IF c.time THEN TimeSuffix ELSE <<>>)

FormSeps == {".", "-", "/"}
MaxMonth == 13
MaxDay == 32
Years4 == {0, 1999, 2024, 2025}
DaysUnderTest == {0, 1, 24, 28, 29, 30, 31} \cup {MaxDay}

FourDigitCases ==
    [kind : {"y4"}, ylen : {4}, y : Years4, m : 0..MaxMonth, d : DaysUnderTest,
     sep1 : FormSeps, sep2 : FormSeps, pad : BOOLEAN, time : BOOLEAN]
TwoDigitCases ==
    [kind : {"y2"}, ylen : {2}, y : 0..99, m : {2, 10, MaxMonth}, d : {24, 29, 30},
     sep1 : {"."}, sep2 : {"."}, pad : {TRUE}, time : BOOLEAN]

\* texts without a digit-separator date pattern
NoPatternTexts ==
    { None, <<>>, <<" ">>, <<"a", "b", "c">>,
      <<"2", "0", "2", "5", "1", "0", "2", "4">>,
      <<"2", "0", "2", "5", ".", "1", "0">>,
      <<"2", "0", "2", "5", ".", "1", "0", ".">>,
      <<"2", "0", "2", "5", ".", ".", "2", "4">>,
      <<"2", "0", "2", "5", ":", "1", "0", ":", "2", "4">>,
      <<"2", "0", "2", "5", " ", "1", "0", " ", "2", "4">>,
      <<"0", "9", ":", "1", "0">>,
      <<"5", ".", "1", "0", ".", "2", "4">>,
      <<"1", "0", ".", "2", "4">>,
      <<".", "-", "/">> }
RawCase == [kind |-> "raw", ylen |-> 0, y |-> 0, m |-> 0, d |-> 0,
            sep1 |-> ".", sep2 |-> ".", pad |-> FALSE, time |-> FALSE]

Unset == [kind |-> "unset", y |-> 0, m |-> 0, d |-> 0]
NoParser == "none"

DateInit ==
    /\ \/ /\ date_case \in FourDigitCases \cup TwoDigitCases
          /\ date_text = FormatCase(date_case)
       \/ /\ date_case = RawCase
          /\ date_text \in NoPatternTexts
    /\ date_out = [parser |-> NoParser, res |-> Unset]

\* one call of each parser on the text
CallItemNewsToDate ==
    /\ date_out.parser = NoParser
    /\ date_out' = [parser |-> "ItemNews", res |-> ItemNews_to_date(date_text)]
    /\ UNCHANGED <<date_case, date_text, notDate>>
CallHCIToDate ==
    /\ date_out.parser = NoParser
    /\ date_out' = [parser |-> "HCI", res |-> HCI_to_date(date_text)]
    /\ UNCHANGED <<date_case, date_text, notDate>>
CallNewsToDate ==
    /\ date_out.parser = NoParser
    /\ date_out' = [parser |-> "News", res |-> News_to_date(date_text)]
    /\ UNCHANGED <<date_case, date_text, notDate>>
CallBoardParseToDate ==
    /\ date_out.parser = NoParser
    /\ date_out' = [parser |-> "Board", res |-> Board_parse_to_date(date_text)]
    /\ UNCHANGED <<date_case, date_text, notDate>>

NoUrl == [scheme |-> "", host |-> "", path |-> <<>>, query |-> <<>>]
NoUuid == [ns |-> "", name |-> NoUrl]
NoRecord == [spider |-> "none", stage |-> "start", oid |-> None, aid |-> None,
             article_id |-> None, link |-> NoUrl, uuid |-> NoUuid]
UrlIdle == url_case = [variant |-> "idle"] /\ url_req = NoUrl /\ url_out = NoRecord
PipeIdle == seen_ids = {} /\ submitted = <<>> /\ outcomes = <<>>
NoList == [page |-> 0, rows |-> <<>>, seen_before |-> {}, scheduled |-> {},
           next |-> FALSE, raised |-> FALSE]
CrawlIdle == /\ since_days = 0 /\ cutoff_date = [kind |-> "none", y |-> 0, m |-> 0, d |-> 0]
             /\ articles_seen = {} /\ requests = {} /\ emitted = {}
             /\ last_list = NoList
BodyIdle == body_page = <<>> /\ body_out = [spider |-> "none", texts |-> <<"None">>]
ReportIdle ==
    /\ report_variant = "none" /\ report_requests = {} /\ section_seen = {}
    /\ total_pages = 0 /\ pages_processed = 0
    /\ report_list = [section |-> "none", page |-> 0, rows |-> <<>>, details |-> <<>>,
                      stop_crawling |-> FALSE, next |-> FALSE, raised |-> "none"]
CodesIdle ==
    /\ codes_file = [exists |-> FALSE, text |-> <<>>]
    /\ codes_out = [spider |-> "none", explicit |-> "none", first_n |-> 0,
                    error |-> "none", seeds |-> <<>>]
BoardIdle ==
    /\ end_page = 0 /\ seen_nids = {} /\ board_requests = {} /\ board_emitted = {}
    /\ board_run = "none"
    /\ board_list = [page |-> 0, rows |-> <<>>, seen_before |-> {}, scheduled |-> {},
                     passed |-> FALSE, next |-> FALSE, raised |-> FALSE]
HciIdle ==
    /\ hci_spider = "none" /\ max_pages = <<>> /\ hci_since_days = 0
    /\ hci_requests = {} /\ hci_listed = {}
    /\ hci_list = [page |-> 0, rows |-> <<>>, last_page |-> 0, scheduled |-> {},
                   found_any |-> FALSE, hit_older_than_cutoff |-> FALSE, next |-> FALSE]
GenIdle ==
    /\ gen_spider = "none" /\ gens = <<>> /\ seen_keys = {} /\ detail_requests = {}
DetIdle == det_requests = {} /\ det_fingerprints = {} /\ det_records = <<>>
MsIdle ==
    /\ ms_codes = {} /\ ms_requests = {} /\ ms_log = <<>>
    /\ ms_list = [page |-> 0, rr |-> 0, nums |-> {}, next |-> FALSE]
NatIdle ==
    /\ nat_spider = "none" /\ nat_site = [pages |-> <<>>, beyond |-> "none"]
    /\ nat_requests = {} /\ nat_top = 0
SecIdle ==
    /\ sec_spider = "none" /\ sec_max = [headlines |-> 0, latest |-> 0, pages |-> <<>>]
    /\ cnt_headline = <<>> /\ cnt_latest = <<>> /\ seen_urls = {}
    /\ sec_articles = {} /\ sec_requests = {} /\ sec_listed = {}
ShIdle ==
    /\ sh_seen = {} /\ sh_requests = {} /\ sh_fetched = {} /\ sh_emitted = {}
    /\ sh_first = <<>>
DateIdle == date_case = RawCase /\ date_text = None
            /\ date_out = [parser |-> NoParser, res |-> Unset]
CleanIdle == clean_in = None /\ clean_out = None

DateNext == CallItemNewsToDate \/ CallHCIToDate \/ CallNewsToDate \/ CallBoardParseToDate
InitDate == DateInit /\ CleanIdle /\ UrlIdle /\ PipeIdle /\ CrawlIdle /\ BodyIdle /\ ReportIdle /\ CodesIdle /\ BoardIdle /\ HciIdle /\ GenIdle /\ DetIdle /\ MsIdle /\ NatIdle /\ SecIdle /\ ShIdle
SpecDate == InitDate /\ [][DateNext]_vars

(***************************************************************************)
(* Claims on the date parsers                                              *)
(***************************************************************************)
Parsed == date_out.parser # NoParser
TwoDigitParsers == {"ItemNews", "HCI"}

\* C7: every parser returns the calendar date a four-digit-year text was
\* written from, whichever of the separators . - / the text uses, zero-padded
\* or not, with or without a trailing time; the two-digit-year parsers read
\* "25.10.24" as 2025-10-24; a text without a date pattern, the empty text
\* and None parse to "no date".
C7_SameDateForAllForms ==
    Parsed =>
        /\ (date_case.kind = "y4" /\ ValidDate(date_case.y, date_case.m, date_case.d))
              => date_out.res = Date(date_case.y, date_case.m, date_case.d)
        /\ (date_case.kind = "y2" /\ date_out.parser \in TwoDigitParsers
              /\ date_case.y = 25 /\ date_case.m = 10 /\ date_case.d = 24)
              => date_out.res = Date(2025, 10, 24)
        /\ date_case.kind = "raw" => date_out.res = NoDate

C7_Witness ==
    /\ date_out.parser = "ItemNews"
    /\ date_case.kind = "y4" /\ date_case.sep1 = "/" /\ date_case.sep2 = "/"
    /\ date_case.time /\ date_case.pad
    /\ date_out.res = Date(2025, 10, 24)

\* C8 as claimed: every parser that accepts a two-digit year reads YY as
\* the year 2000+YY, for every YY in 00..99.
C8_TwoDigitYearIs2000Plus ==
    (date_case.kind = "y2" /\ date_out.parser \in TwoDigitParsers
       /\ date_out.res.kind = "date")
      => date_out.res.y = 2000 + date_case.y

\* the year each parser gives a two-digit year
ExpectedYear(parser, yy) ==
    IF parser = "HCI" /\ yy >= 70 THEN 1900 + yy ELSE 2000 + yy

\* C8 amended: the finance_test item-news parser reads every YY in 00..99 as
\* 2000+YY; the HCI parser reads 00..69 as 2000+YY and 70..99 as 1900+YY; in
\* both the result is that year's date whenever month and day are valid in it.
C8_TwoDigitYearByParser ==
    (date_case.kind = "y2" /\ date_out.parser \in TwoDigitParsers)
      => /\ date_out.res.kind = "date"
              => date_out.res.y = ExpectedYear(date_out.parser, date_case.y)
         /\ ValidDate(ExpectedYear(date_out.parser, date_case.y), date_case.m, date_case.d)
              => date_out.res = Date(ExpectedYear(date_out.parser, date_case.y),
                                     date_case.m, date_case.d)

C8_Witness ==
    /\ date_out.parser = "HCI" /\ date_case.kind = "y2" /\ date_case.y = 70
    /\ date_out.res = Date(1970, 10, 24)

\* C9 as claimed: whatever the text, and also when its digits match the
\* pattern but name no calendar date, a parser used for the cutoff
\* comparison returns "no date" and never raises.
C9_ParserNeverRaises ==
    Parsed => date_out.res # ValueError

\* the raising call: a finance_test parser on a text naming month 13
C9_Witness ==
    /\ date_out.parser \in {"ItemNews", "News", "Board"}
    /\ date_case.kind = "y4" /\ date_case.m = 13
    /\ date_out.res = ValueError

(***************************************************************************)
(* _clean: whitespace normalisation                                        *)
(***************************************************************************)
RECURSIVE ReplaceNbsp(_)
\* s.replace("\xa0", " ")
ReplaceNbsp(s) == IF s = <<>> THEN <<>>
                  ELSE <<IF s[1] = NBSP THEN " " ELSE s[1]>> \o ReplaceNbsp(Tail(s))

RECURSIVE CollapseSpaces(_)
\* re.sub(r"\s+", " ", s): every maximal run of whitespace becomes one space
CollapseSpaces(s) ==
    IF s = <<>> THEN <<>>
    ELSE IF IsSpace(s[1]) THEN <<" ">> \o CollapseSpaces(LStrip(s))
    ELSE <<s[1]>> \o CollapseSpaces(Tail(s))

\* _clean with the strip() left out
Clean_NoStrip(s) ==
    IF Falsy(s) THEN None
    ELSE LET u == CollapseSpaces(ReplaceNbsp(s))
         IN  IF u = <<>> THEN None ELSE u

\* _clean (the same body in every spider file)
Clean(s) ==
    IF Falsy(s) THEN None
    ELSE LET u == CollapseSpaces(Strip(ReplaceNbsp(s)))
         IN  IF u = <<>> THEN None ELSE u

MaxCleanLen == 4
CleanChars == {"a", "b", " ", "\t", "\n", NBSP}
RECURSIVE TextsUpTo(_, _)
\* every text over the characters cs of length at most n
TextsUpTo(cs, n) ==
    IF n = 0 THEN {<<>>}
    ELSE LET shorter == TextsUpTo(cs, n - 1)
         IN  shorter \cup {<<c>> \o t : c \in cs, t \in {u \in shorter : Len(u) = n - 1}}

NotCleaned == <<"NotCleaned">>

CleanInit ==
    /\ clean_in \in TextsUpTo(CleanChars, MaxCleanLen) \cup {None}
    /\ clean_out = NotCleaned

CallClean ==
    /\ clean_out = NotCleaned
    /\ clean_out' = Clean(clean_in)
    /\ UNCHANGED <<clean_in, notClean>>

CleanNext == CallClean
InitClean == CleanInit /\ DateIdle /\ UrlIdle /\ PipeIdle /\ CrawlIdle /\ BodyIdle /\ ReportIdle /\ CodesIdle /\ BoardIdle /\ HciIdle /\ GenIdle /\ DetIdle /\ MsIdle /\ NatIdle /\ SecIdle /\ ShIdle
SpecClean == InitClean /\ [][CleanNext]_vars

RECURSIVE Words(_)
\* s.split(): the maximal runs of non-whitespace characters, in order
Words(s) ==
    LET t == LStrip(s)
        n == IF \E i \in 1..Len(t) : IsSpace(t[i])
             THEN (CHOOSE i \in 1..Len(t) : IsSpace(t[i]) /\ \A j \in 1..(i - 1) : ~IsSpace(t[j])) - 1
             ELSE Len(t)
    IN  IF t = <<>> THEN <<>>
        ELSE <<SubSeq(t, 1, n)>> \o Words(SubSeq(t, n + 1, Len(t)))

RECURSIVE SplitOnSpace(_)
\* s.split(" "): the pieces between single spaces (empty pieces kept)
SplitOnSpace(s) ==
    IF \E i \in 1..Len(s) : s[i] = " "
    THEN LET i == CHOOSE k \in 1..Len(s) : s[k] = " " /\ \A j \in 1..(k - 1) : s[j] # " "
         IN  <<SubSeq(s, 1, i - 1)>> \o SplitOnSpace(SubSeq(s, i + 1, Len(s)))
    ELSE <<s>>

WhitespaceOnly(s) == s = None \/ \A i \in 1..Len(s) : IsSpace(s[i])

\* C10: _clean returns None for None, the empty and the whitespace-only
\* text, and otherwise a text with no leading or trailing whitespace, no
\* tab, newline or non-breaking space and no two adjacent whitespace
\* characters, whose space-separated pieces are the whitespace-separated
\* words of the input in order; cleaning the result again changes nothing.
C10_CleanNormalises ==
    clean_out # NotCleaned =>
        /\ WhitespaceOnly(clean_in) <=> clean_out = None
        /\ clean_out # None =>
              /\ ~IsSpace(clean_out[1]) /\ ~IsSpace(clean_out[Len(clean_out)])
              /\ \A i \in 1..Len(clean_out) : clean_out[i] \notin {"\t", "\n", NBSP}
              /\ \A i \in 1..(Len(clean_out) - 1) :
                     ~(IsSpace(clean_out[i]) /\ IsSpace(clean_out[i + 1]))
              /\ SplitOnSpace(clean_out) = Words(clean_in)
        /\ Clean(clean_out) = clean_out

\* a text with leading, inner and mixed whitespace has been cleaned
C10_Witness ==
    /\ clean_in = <<NBSP, "a", "\t", "b">>
    /\ clean_out = <<"a", " ", "b">>

(***************************************************************************)
(* Article URLs.  A URL is what urlparse makes of it: scheme, host, the    *)
(* path as the pieces between slashes, the query as (key, value) pairs in  *)
(* order.  Path pieces and query values are texts; query keys are names.   *)
(***************************************************************************)
Article == <<"a", "r", "t", "i", "c", "l", "e">>
Mnews == <<"m", "n", "e", "w", "s">>
NewsRead == <<"n", "e", "w", "s", "_", "r", "e", "a", "d">>
ReadNaver == <<"r", "e", "a", "d">>
NewsHosts == {"news.naver.com", "n.news.naver.com"}

Truthy(v) == ~Falsy(v)
\* a or b
OrElse(a, b) == IF Truthy(a) THEN a ELSE b

\* [x for x in p.path.split("/") if x]
PathParts(url) == SelectSeq(url.path, LAMBDA x : x # <<>>)

\* (v or "").isdigit()
IsDigitText(v) == v # None /\ v # <<>> /\ \A i \in 1..Len(v) : IsDigit(v[i])

\* parse_qs(query).get(key, [dflt])[0]: the first non-blank value of key
\* (parse_qs drops blank values), or dflt when the key has none
QsGet(url, key, dflt) ==
    LET hits == {i \in 1..Len(url.query) : url.query[i][1] = key /\ url.query[i][2] # <<>>}
    IN  IF hits = {} THEN dflt
        ELSE url.query[CHOOSE h \in hits : \A o \in hits : h <= o][2]

\* f"https://news.naver.com/article/{oid}/{aid}"
ArticleUrl(oid, aid) ==
    [scheme |-> "https", host |-> "news.naver.com", path |-> <<Article, oid, aid>>, query |-> <<>>]

\* the path branch: the last three parts are article/{oid}/{aid}
PathOidAid(url, digits_only) ==
    LET parts == PathParts(url)
        n == Len(parts)
    IN  IF n >= 3 /\ parts[n - 2] = Article
           /\ (digits_only => IsDigitText(parts[n - 1]) /\ IsDigitText(parts[n]))
        THEN <<parts[n - 1], parts[n]>>
        ELSE <<>>

\* the query tried before the path
ExtractOidAidFromUrl_QueryFirst(url) ==
    LET q == <<OrElse(QsGet(url, "office_id", None), QsGet(url, "oid", None)),
               OrElse(QsGet(url, "article_id", None), QsGet(url, "aid", None))>>
    IN  IF Truthy(q[1]) /\ Truthy(q[2]) THEN q
        ELSE IF PathOidAid(url, TRUE) # <<>> THEN PathOidAid(url, TRUE)
        ELSE q

\* _extract_oid_aid_from_url (HCI and crawler item-news): the path first,
\* both parts numeric, then office_id/article_id or oid/aid
ExtractOidAidFromUrl(url) ==
    IF PathOidAid(url, TRUE) # <<>> THEN PathOidAid(url, TRUE)
    ELSE <<OrElse(QsGet(url, "office_id", None), QsGet(url, "oid", None)),
           OrElse(QsGet(url, "article_id", None), QsGet(url, "aid", None))>>

\* _canonical_article_url(oid, aid) of HCI and crawler item-news
CanonicalArticleUrl(oid, aid) ==
    IF ~(Truthy(oid) /\ Truthy(aid)) THEN NoUrl ELSE ArticleUrl(oid, aid)

\* finance_test item-news _extract_oid_aid_from_href: the query only
ExtractOidAidFromHref(href) ==
    LET oid == QsGet(href, "office_id", None)
        aid == QsGet(href, "article_id", None)
    IN  IF ~(Truthy(oid) /\ Truthy(aid))
        THEN <<QsGet(href, "oid", oid), QsGet(href, "aid", aid)>>
        ELSE <<oid, aid>>

\* finance_test item-news _canonical_article_url(oid, aid, fallback)
CanonicalOrFallback(oid, aid, fallback) ==
    IF Truthy(oid) /\ Truthy(aid) THEN ArticleUrl(oid, aid) ELSE fallback

\* finance_test item-news parse_article._extract_oid_aid: the path (parts
\* not checked for digits), then oid/aid
ItemNews_extract_oid_aid(url) ==
    IF PathOidAid(url, FALSE) # <<>> THEN PathOidAid(url, FALSE)
    ELSE <<QsGet(url, "oid", None), QsGet(url, "aid", None)>>

\* the query branch left out
News_extract_oid_aid_PathOnly(url) ==
    IF PathOidAid(url, TRUE) # <<>> THEN PathOidAid(url, TRUE)
    ELSE <<None, None>>

\* NaverNewsSpider._extract_oid_aid (both naver_news spiders)
News_extract_oid_aid(url) ==
    IF PathOidAid(url, TRUE) # <<>> THEN PathOidAid(url, TRUE)
    ELSE <<QsGet(url, "oid", None), QsGet(url, "aid", None)>>

\* NaverNewsSpider._canonical_link
News_canonical_link(oid, aid) ==
    IF Truthy(oid) /\ Truthy(aid) THEN ArticleUrl(oid, aid) ELSE NoUrl

\* uuid5(NAMESPACE_URL, name): a value determined by namespace and name
Uuid5(ns, name) == [ns |-> ns, name |-> name]
NAMESPACE_URL == "NAMESPACE_URL"

\* the uuid taken from the response URL instead of the canonical link
News_make_uuid_FromUrl(oid, aid, url) == Uuid5(NAMESPACE_URL, url)

\* NaverNewsSpider._make_uuid
News_make_uuid(oid, aid, url) ==
    Uuid5(NAMESPACE_URL,
          IF News_canonical_link(oid, aid) # NoUrl THEN News_canonical_link(oid, aid) ELSE url)

\* finance_test item-news _make_uuid
ItemNews_make_uuid(link) == Uuid5(NAMESPACE_URL, link)

(***************************************************************************)
(* The link, article_id and uuid fields each news spider's parse_article   *)
(* derives from response.url                                               *)
(***************************************************************************)
Emitted(spider, oa, link, uuid) ==
    [spider |-> spider, stage |-> "item", oid |-> oa[1], aid |-> oa[2],
     article_id |-> OrElse(oa[2], None), link |-> link, uuid |-> uuid]

\* crawler item-news parse_article: link = canonical or response.url
Crawler_article_record(url) ==
    LET oa == ExtractOidAidFromUrl(url)
        canonical == CanonicalArticleUrl(oa[1], oa[2])
        link == IF canonical # NoUrl THEN canonical ELSE url
    IN  Emitted("CrawlerItemNews", oa, link, Uuid5(NAMESPACE_URL, link))

\* HCI item-news parse_article, past the hop to the canonical page
HCI_article_record(url) ==
    LET oa == ExtractOidAidFromUrl(url)
        canonical == CanonicalArticleUrl(oa[1], oa[2])
        link == IF canonical # NoUrl THEN canonical ELSE url
    IN  Emitted("HCI", oa, link, Uuid5(NAMESPACE_URL, link))

\* finance_test item-news parse_article
ItemNews_article_record(url) ==
    LET oa == ItemNews_extract_oid_aid(url)
        link == CanonicalOrFallback(oa[1], oa[2], url)
    IN  Emitted("ItemNews", oa, link, ItemNews_make_uuid(link))

\* naver_news parse_article (finance_test and crawler: the same lines)
News_article_record(spider, url) ==
    LET oa == News_extract_oid_aid(url)
        canonical == News_canonical_link(oa[1], oa[2])
        link == IF canonical # NoUrl THEN canonical ELSE url
    IN  Emitted(spider, oa, link, News_make_uuid(oa[1], oa[2], url))

\* the articles and the URL variants they are reached by
Oids == {<<"2", "7", "7">>, <<"0", "1", "5">>}
Aids == {<<"0", "0", "5", "7">>, <<"4", "2">>}
OtherOid == <<"9", "9", "9">>
OtherAid == <<"8", "8", "8">>
PathVariants == {"path", "mnews"}
QueryVariants == {"office", "oidaid"}

UrlCases ==
    [variant : PathVariants, oid : Oids, aid : Aids,
     extra : {"none", "sid", "conflict"}, slash : BOOLEAN]
    \cup [variant : QueryVariants, oid : Oids, aid : Aids,
          extra : {"none", "sid"}, slash : {FALSE}]

ExtraQuery(c) ==
    IF c.extra = "sid" THEN << <<"sid", <<"1", "0", "1">> >> >>
    ELSE IF c.extra = "conflict"
    THEN << <<"office_id", OtherOid>>, <<"article_id", OtherAid>>,
            <<"oid", OtherOid>>, <<"aid", OtherAid>> >>
    ELSE <<>>

\* the URL of a case
UrlOf(c) ==
    IF c.variant = "path"
    THEN [scheme |-> "https", host |-> "news.naver.com",
          path |-> <<Article, c.oid, c.aid>> \o (IF c.slash THEN << <<>> >> ELSE <<>>),
          query |-> ExtraQuery(c)]
    ELSE IF c.variant = "mnews"
    THEN [scheme |-> "https", host |-> "n.news.naver.com",
          path |-> <<Mnews, Article, c.oid, c.aid>> \o (IF c.slash THEN << <<>> >> ELSE <<>>),
          query |-> ExtraQuery(c)]
    ELSE IF c.variant = "office"
    THEN [scheme |-> "https", host |-> "finance.naver.com",
          path |-> <<<<"i", "t", "e", "m">>, NewsRead>>,
          query |-> << <<"article_id", c.aid>>, <<"office_id", c.oid>> >> \o ExtraQuery(c)]
    ELSE [scheme |-> "https", host |-> "news.naver.com",
          path |-> <<ReadNaver>>,
          query |-> ExtraQuery(c) \o << <<"oid", c.oid>>, <<"aid", c.aid>> >>]

\* URLs that name no article, or name it incompletely
OtherUrls ==
    { [scheme |-> "https", host |-> "news.naver.com",
       path |-> <<Article, <<"a", "b">>, <<"4", "2">>>>, query |-> <<>>],
      [scheme |-> "https", host |-> "news.naver.com",
       path |-> <<ReadNaver>>, query |-> << <<"oid", <<"2", "7", "7">>>> >>],
      [scheme |-> "https", host |-> "news.naver.com",
       path |-> <<ReadNaver>>,
       query |-> << <<"oid", <<"2", "7", "7">>>>, <<"aid", <<>>>> >>],
      [scheme |-> "https", host |-> "finance.naver.com",
       path |-> <<<<"i", "t", "e", "m">>, NewsRead>>,
       query |-> << <<"office_id", <<"2", "7", "7">>>> >>],
      [scheme |-> "https", host |-> "news.naver.com",
       path |-> <<<<"s", "e", "c">>, <<"1", "0", "1">>>>, query |-> <<>>] }
OtherCase == [variant |-> "other", oid |-> None, aid |-> None, extra |-> "none", slash |-> FALSE]

UrlInit ==
    /\ \/ url_case \in UrlCases /\ url_req = UrlOf(url_case)
       \/ url_case = OtherCase /\ url_req \in OtherUrls
    /\ url_out = NoRecord

AtStart == url_out.spider = "none" /\ url_out.stage = "start"

\* crawler item-news: parse_article on the list row's URL
Crawler_parse_article ==
    /\ AtStart
    /\ url_out' = Crawler_article_record(url_req)
    /\ UNCHANGED <<url_case, url_req, notUrl>>

\* crawler naver_news: parse_article on the section link's URL
CrawlerNews_parse_article ==
    /\ AtStart
    /\ url_out' = News_article_record("CrawlerNews", url_req)
    /\ UNCHANGED <<url_case, url_req, notUrl>>

\* finance_test naver_news: parse_article returns early when the page has no
\* publish date or one before the cutoff (stale), else emits the record
News_parse_article ==
    /\ AtStart
    /\ \E stale \in BOOLEAN :
          url_out' = IF stale THEN [NoRecord EXCEPT !.spider = "News", !.stage = "dropped"]
                     ELSE News_article_record("News", url_req)
    /\ UNCHANGED <<url_case, url_req, notUrl>>

\* finance_test item-news: parse_finance_list turns the row's href into the
\* article URL it requests
ItemNews_parse_finance_list ==
    /\ AtStart
    /\ LET oa == ExtractOidAidFromHref(url_req)
       IN  url_req' = CanonicalOrFallback(oa[1], oa[2], url_req)
    /\ url_out' = [NoRecord EXCEPT !.spider = "ItemNews", !.stage = "scheduled"]
    /\ UNCHANGED <<url_case, notUrl>>

\* finance_test item-news: parse_article on the requested article URL
ItemNews_parse_article ==
    /\ url_out.spider = "ItemNews" /\ url_out.stage = "scheduled"
    /\ url_out' = ItemNews_article_record(url_req)
    /\ UNCHANGED <<url_case, url_req, notUrl>>

\* HCI item-news parse_article: from a page that is not on news.naver.com or
\* has no #dic_area it requests the canonical URL (a request for a URL
\* already requested is dropped by the scheduler's duplicate filter);
\* otherwise it emits the record unless the publish date is before the cutoff
HCI_parse_article ==
    /\ \/ AtStart
       \/ url_out.spider = "HCI" /\ url_out.stage = "scheduled"
    /\ \E has_dic_area \in BOOLEAN, stale \in BOOLEAN :
          LET oa == ExtractOidAidFromUrl(url_req)
              canonical == CanonicalArticleUrl(oa[1], oa[2])
          IN  IF (url_req.host \notin NewsHosts \/ ~has_dic_area) /\ canonical # NoUrl
              THEN /\ url_req' = canonical
                   /\ url_out' = [NoRecord EXCEPT !.spider = "HCI",
                                     !.stage = IF canonical = url_req THEN "filtered"
                                               ELSE "scheduled"]
              ELSE /\ url_req' = url_req
                   /\ url_out' = IF stale
                                  THEN [NoRecord EXCEPT !.spider = "HCI", !.stage = "dropped"]
                                  ELSE HCI_article_record(url_req)
    /\ UNCHANGED <<url_case, notUrl>>

UrlNext ==
    \/ Crawler_parse_article
    \/ CrawlerNews_parse_article
    \/ News_parse_article
    \/ ItemNews_parse_finance_list
    \/ ItemNews_parse_article
    \/ HCI_parse_article
InitUrl == UrlInit /\ DateIdle /\ CleanIdle /\ PipeIdle /\ CrawlIdle /\ BodyIdle /\ ReportIdle /\ CodesIdle /\ BoardIdle /\ HciIdle /\ GenIdle /\ DetIdle /\ MsIdle /\ NatIdle /\ SecIdle /\ ShIdle
SpecUrl == InitUrl /\ [][UrlNext]_vars

(***************************************************************************)
(* Claims on the link and the identifier                                   *)
(***************************************************************************)
ItemEmitted == url_out.stage = "item"
\* the URL names one article, in one of the three forms
ArticleCase == url_case.variant \in PathVariants \cup QueryVariants
               /\ url_case.extra # "conflict"
ItemNewsSpiders == {"ItemNews", "HCI", "CrawlerItemNews"}
NewsSpiders == {"News", "CrawlerNews"}

\* C1: in every news spider the uuid of an emitted record is
\* uuid5(NAMESPACE_URL, link) of the record's own link, whatever URL the
\* article was reached by: records with equal link carry equal uuid.
C1_UuidIsUuid5OfLink ==
    ItemEmitted => url_out.uuid = Uuid5(NAMESPACE_URL, url_out.link)

\* a naver_news record whose link was canonicalised from another URL
C1_Witness ==
    /\ ItemEmitted /\ url_out.spider = "News"
    /\ url_case.variant = "mnews" /\ url_out.link # url_req
    /\ url_out.uuid = Uuid5(NAMESPACE_URL, url_out.link)

\* C2 as claimed: every news spider derives the canonical link and its uuid
\* for an article, whether reached by a path-style URL, by
\* ?office_id=..&article_id=.. or by ?oid=..&aid=..
C2_SameLinkForEveryVariant ==
    (ItemEmitted /\ ArticleCase)
      => /\ url_out.link = ArticleUrl(url_case.oid, url_case.aid)
         /\ url_out.uuid = Uuid5(NAMESPACE_URL, ArticleUrl(url_case.oid, url_case.aid))

\* C2 amended: the path-style and ?oid=..&aid=.. variants give the canonical
\* link and its uuid in every news spider; the ?office_id=..&article_id=..
\* variant does so in the item-news spiders only, and the naver_news spiders
\* keep such a URL itself as the link.
C2_SameLinkForHandledVariants ==
    (ItemEmitted /\ ArticleCase)
      => IF url_case.variant = "office" /\ url_out.spider \in NewsSpiders
         THEN /\ url_out.link = UrlOf(url_case)
              /\ url_out.uuid = Uuid5(NAMESPACE_URL, UrlOf(url_case))
         ELSE /\ url_out.link = ArticleUrl(url_case.oid, url_case.aid)
              /\ url_out.uuid = Uuid5(NAMESPACE_URL, ArticleUrl(url_case.oid, url_case.aid))

\* a naver_news record for an article reached by ?oid=..&aid=..
C2_Witness ==
    /\ ItemEmitted /\ url_out.spider = "CrawlerNews"
    /\ url_case.variant = "oidaid"
    /\ url_out.link = ArticleUrl(url_case.oid, url_case.aid)

\* C3: for numeric oid and aid, _extract_oid_aid_from_url followed by
\* _canonical_article_url (HCI and crawler item-news) maps a URL whose path
\* ends in /article/{oid}/{aid} and a URL with the query
\* office_id={oid}&article_id={aid} to https://news.naver.com/article/{oid}/{aid};
\* the path is tried first and wins over query parameters naming another
\* article.
C3_PathThenQueryCanonical ==
    (ItemEmitted /\ url_out.spider \in {"HCI", "CrawlerItemNews"}
       /\ url_case.variant \in PathVariants \cup {"office"})
      => /\ url_out.oid = url_case.oid /\ url_out.aid = url_case.aid
         /\ url_out.link = [scheme |-> "https", host |-> "news.naver.com",
                             path |-> <<Article, url_case.oid, url_case.aid>>,
                             query |-> <<>>]

\* a path-style URL that also carries office_id/article_id of another article
C3_Witness ==
    /\ ItemEmitted /\ url_out.spider = "CrawlerItemNews"
    /\ url_case.variant = "path" /\ url_case.extra = "conflict"
    /\ url_out.link = ArticleUrl(url_case.oid, url_case.aid)

(***************************************************************************)
(* crawler/finance_test/pipelines.py: DedupePipeline                       *)
(***************************************************************************)
MaxItems == 4
\* item.get('original_id'): the nid of the report link, None without one
OriginalIds == {<<"7">>, <<"8">>, None}
Titles == {"t1", "t2"}
\* an item carries the field, with a nid or with None, or was never given it
Items == [original_id : OriginalIds, title : Titles] \cup [title : Titles]

\* a missing field read as a key of its own, one per item
ItemGet_PerItem(item, key) ==
    IF key \in DOMAIN item THEN item[key] ELSE <<"missing", item.title>>

\* item.get(key): the value of the field, None for a field never set
ItemGet(item, key) == IF key \in DOMAIN item THEN item[key] ELSE None

\* the key never recorded
SeenAfterReturn_Forget(seen, oid) == seen

\* self.seen_ids.add(oid)
SeenAfterReturn(seen, oid) == seen \cup {oid}

PipeInit == seen_ids = {} /\ submitted = <<>> /\ outcomes = <<>>

\* process_item(item, spider): raise DropItem for a key already seen, else
\* record the key and return the item
process_item(item) ==
    /\ Len(submitted) < MaxItems
    /\ submitted' = Append(submitted, item)
    /\ LET oid == ItemGet(item, "original_id")
       IN  IF oid \in seen_ids
           THEN /\ outcomes' = Append(outcomes, "DropItem")
                /\ UNCHANGED seen_ids
           ELSE /\ seen_ids' = SeenAfterReturn(seen_ids, oid)
                /\ outcomes' = Append(outcomes, "returned")
    /\ UNCHANGED notPipe

PipeNext == \E item \in Items : process_item(item)
InitPipe == PipeInit /\ DateIdle /\ CleanIdle /\ UrlIdle /\ CrawlIdle /\ BodyIdle /\ ReportIdle /\ CodesIdle /\ BoardIdle /\ HciIdle /\ GenIdle /\ DetIdle /\ MsIdle /\ NatIdle /\ SecIdle /\ ShIdle
SpecPipe == InitPipe /\ [][PipeNext]_vars

Returned == {i \in 1..Len(submitted) : outcomes[i] = "returned"}
OidOf(i) == ItemGet(submitted[i], "original_id")
SubmittedKeys == {OidOf(i) : i \in 1..Len(submitted)}

C5_FirstPerKeyReturned ==
    /\ Len(outcomes) = Len(submitted)
    /\ \A i \in 1..Len(submitted) :
          outcomes[i] = "returned"
            <=> ~\E j \in 1..(i - 1) : OidOf(j) = OidOf(i)
    /\ \A i \in 1..Len(submitted) : outcomes[i] \in {"returned", "DropItem"}
    /\ \A k \in SubmittedKeys :
          Cardinality({i \in Returned : OidOf(i) = k}) = 1
    /\ seen_ids = {OidOf(i) : i \in Returned}

\* C5: of the items handed to process_item in one run, exactly one per
\* distinct original_id is returned, the first with that key, and every
\* later one with the key raises DropItem; seen_ids is always the set of the
\* keys of the items returned so far, and it only grows.
C5_DedupeOnePerKey ==
    [](C5_FirstPerKeyReturned) /\ [][seen_ids \subseteq seen_ids']_vars

\* two keys returned once each and a duplicate dropped
C5_Witness ==
    /\ Len(submitted) = 4
    /\ outcomes = <<"returned", "DropItem", "returned", "DropItem">>
    /\ submitted[1].title # submitted[2].title

\* the items with no original_id: the field never set, or set to None
LacksOriginalId(i) ==
    \/ "original_id" \notin DOMAIN submitted[i]
    \/ submitted[i].original_id = None

\* C29: all the items that lack an original_id share the one key None: the
\* first of them handed to process_item is returned and every later one
\* raises DropItem, whatever its other fields and whether the field was never
\* set or set to None.
C29_ItemsWithoutIdShareOneKey ==
    /\ Len(outcomes) = Len(submitted)
    /\ \A i \in 1..Len(submitted) :
          LacksOriginalId(i) =>
             outcomes[i] = (IF \E j \in 1..(i - 1) : LacksOriginalId(j)
                            THEN "DropItem" ELSE "returned")

\* an item with the field unset is returned; one with None and another title
\* and one more with the field unset are dropped after it
C29_Witness ==
    /\ Len(submitted) = 4
    /\ "original_id" \notin DOMAIN submitted[1]
    /\ "original_id" \in DOMAIN submitted[2]
    /\ LacksOriginalId(2)
    /\ submitted[2].title # submitted[1].title
    /\ ~LacksOriginalId(3)
    /\ "original_id" \notin DOMAIN submitted[4]
    /\ submitted[4].title # submitted[1].title
    /\ outcomes = <<"returned", "DropItem", "returned", "DropItem">>


(***************************************************************************)
(* finance_test/spiders/naver_item_news.py: the crawl of the item news     *)
(* list pages and of the articles they link to                             *)
(***************************************************************************)
\* date.toordinal() and date.fromordinal(), which timedelta arithmetic uses
DaysBeforeYear(y) ==
    (y - 1) * 365 + (y - 1) \div 4 - (y - 1) \div 100 + (y - 1) \div 400
DaysBeforeMonthTable == <<0, 31, 59, 90, 120, 151, 181, 212, 243, 273, 304, 334>>
DaysBeforeMonth(y, m) ==
    DaysBeforeMonthTable[m] + (IF m > 2 /\ IsLeap(y) THEN 1 ELSE 0)
ToOrdinal(dt) == DaysBeforeYear(dt.y) + DaysBeforeMonth(dt.y, dt.m) + dt.d
YearOfOrdinal(n) ==
    CHOOSE yy \in (n \div 366)..(n \div 365 + 1) :
        DaysBeforeYear(yy) < n /\ n <= DaysBeforeYear(yy + 1)
\* the month of day r of year y
MonthOfYearDay(y, r) ==
    CHOOSE mm \in 1..12 :
        DaysBeforeMonth(y, mm) < r /\ r <= DaysBeforeMonth(y, mm) + DaysInMonth(y, mm)
DateOfYearDay(y, m, r) == Date(y, m, r - DaysBeforeMonth(y, m))
YearDay(y, r) == DateOfYearDay(y, MonthOfYearDay(y, r), r)
OrdinalInYear(y, n) == YearDay(y, n - DaysBeforeYear(y))
FromOrdinal(n) == OrdinalInYear(YearOfOrdinal(n), n)

\* (now - timedelta(days=n)).date()
DaysBefore(dt, n) == FromOrdinal(ToOrdinal(dt) - n)

\* _now_kst().date() on the day of the crawl
Today == Date(2025, 11, 7)

\* _to_yymmdd: 'YY.MM.DD' of the first four-digit-year date of the text;
\* the fields are formatted without being checked
YymmddOf(m) ==
    IF m = NoMatch THEN None
    ELSE Fmt02(m[1] % 100) \o <<".">> \o Fmt02(m[2]) \o <<".">> \o Fmt02(m[3])
ItemNews_to_yymmdd(text) ==
    IF Falsy(text) THEN None ELSE YymmddOf(DateSearch(text, 4))

\* the rows a list page can show: a link to an article (or none) and a date
\* cell written from the day the row is dated (age: days before today), or
\* an empty date cell, or a date cell no calendar has
MaxRows == 3
MaxPage == 2
FirstPage == 1
SinceDaysArgs == {365, 5}
RowAges == {0, 10, 400}
Codes == {<<"0", "0", "5", "9", "3", "0">>}
ListedOid == <<"2", "7", "7">>
FinanceHref(aid) ==
    UrlOf([variant |-> "office", oid |-> ListedOid, aid |-> aid,
           extra |-> "none", slash |-> FALSE])
DayText(dt, sep) ==
    FormatCase([ylen |-> 4, y |-> dt.y, m |-> dt.m, d |-> dt.d,
                sep1 |-> sep, sep2 |-> sep, pad |-> TRUE, time |-> TRUE])
ImpossibleDayText ==
    FormatCase([ylen |-> 4, y |-> 2025, m |-> 2, d |-> 30,
                sep1 |-> ".", sep2 |-> ".", pad |-> TRUE, time |-> TRUE])
Rows ==
    { [aid |-> a, href |-> FinanceHref(a), dated |-> "day", age |-> g,
       date_text |-> DayText(DaysBefore(Today, g), ".")] : a \in Aids, g \in RowAges }
    \cup { [aid |-> None, href |-> NoUrl, dated |-> "day", age |-> 0,
            date_text |-> DayText(Today, ".")],
           [aid |-> <<"4", "2">>, href |-> FinanceHref(<<"4", "2">>),
            dated |-> "none", age |-> 0, date_text |-> None],
           [aid |-> <<"0", "0", "5", "7">>, href |-> FinanceHref(<<"0", "0", "5", "7">>),
            dated |-> "impossible", age |-> 0, date_text |-> ImpossibleDayText] }
ListPages == UNION {[1..n -> Rows] : n \in 0..MaxRows}

\* the datestamp of an article page: none, or a day
ArticleDatestamps == {None} \cup {DayText(DaysBefore(Today, g), "-") : g \in {0, 400}}


\* the requests the spider yields
StartRequest == [cb |-> "start", url |-> NoUrl, code |-> None, page |-> 0, hint |-> None]
ListRequest(code, page) ==
    [cb |-> "list", url |-> NoUrl, code |-> code, page |-> page, hint |-> None]
ArticleRequest(url, code, hint) ==
    [cb |-> "article", url |-> url, code |-> code, page |-> 0, hint |-> hint]

\* the cutoff test with the comparison left out
RowIsRecent_AnyDate(item_date, cutoff) == item_date.kind = "date"

\* if item_date and item_date >= self.cutoff_date
RowIsRecent(item_date, cutoff) == item_date.kind = "date" /\ DateGE(item_date, cutoff)

\* what the loop body reads from a row: the date of its date cell, the
\* article URL of its link, and the 'YY.MM.DD' hint handed to parse_article
RowFieldsOf(tr, cell, oa) ==
    [item_date |-> ItemNews_to_date(cell),
     article_url |-> CanonicalOrFallback(oa[1], oa[2], tr.href),
     hint |-> ItemNews_to_yymmdd(cell)]
RowFields(tr) == RowFieldsOf(tr, Clean(tr.date_text), ExtractOidAidFromHref(tr.href))
FieldsOfRow == [tr \in Rows |-> RowFields(tr)]

\* the loop body on row i of the page; acc holds self.articles_seen, the
\* requests yielded so far, the rows they came from, page_has_recent, and
\* whether _to_date has raised
ScanRow(acc, i, tr, f, code, cutoff) ==
    IF tr.href = NoUrl THEN acc
    ELSE IF f.item_date = ValueError THEN [acc EXCEPT !.raised = TRUE]
    ELSE IF ~RowIsRecent(f.item_date, cutoff) THEN acc
    ELSE IF f.article_url = NoUrl \/ f.article_url \in acc.seen
    THEN [acc EXCEPT !.recent = TRUE]
    ELSE [acc EXCEPT !.recent = TRUE,
                     !.seen = @ \cup {f.article_url},
                     !.out = @ \cup {ArticleRequest(f.article_url, code, f.hint)},
                     !.scheduled = @ \cup {i}]

\* the loop over the rows of a list page, from row i on; an exception ends
\* the callback, and what was yielded before it stays yielded
RECURSIVE ScanRows(_, _, _, _, _)
ScanRows(rows, i, acc, code, cutoff) ==
    IF i > Len(rows) \/ acc.raised THEN acc
    ELSE ScanRows(rows, i + 1,
                  ScanRow(acc, i, rows[i], FieldsOfRow[rows[i]], code, cutoff),
                  code, cutoff)
ScanStart(seen) ==
    [seen |-> seen, out |-> {}, scheduled |-> {}, recent |-> FALSE, raised |-> FALSE]

CrawlInit ==
    /\ since_days \in SinceDaysArgs
    /\ cutoff_date = DaysBefore(Today, since_days)
    /\ articles_seen = {}
    /\ requests = {StartRequest}
    /\ emitted = {}
    /\ last_list = NoList

\* start_requests: page 1 of the news list of every code
start_requests ==
    /\ StartRequest \in requests
    /\ requests' = {ListRequest(code, FirstPage) : code \in Codes}
    /\ UNCHANGED <<since_days, cutoff_date, articles_seen, emitted, last_list, notCrawl>>

\* parse_finance_list on the response to a list request; the next page is
\* requested when a row was recent. The news list of a code has a full
\* first page and short pages up to MaxPage: the pages after it are empty,
\* and an empty page yields nothing
PagesServed(page) ==
    IF page = FirstPage THEN ListPages
    ELSE IF page <= MaxPage THEN {rows \in ListPages : Len(rows) <= 1}
    ELSE {<<>>}
\* if page_has_recent: the request for the next page
NextPage(req, r) ==
    IF ~r.raised /\ r.recent THEN {ListRequest(req.code, req.page + 1)} ELSE {}
ListYield(req, rows, r) ==
    /\ articles_seen' = r.seen
    /\ requests' = (requests \ {req}) \cup r.out \cup NextPage(req, r)
    /\ last_list' = [page |-> req.page, rows |-> rows, seen_before |-> articles_seen,
                     scheduled |-> r.scheduled, next |-> NextPage(req, r) # {},
                     raised |-> r.raised]
parse_finance_list ==
    \E req \in {q \in requests : q.cb = "list"} : \E rows \in PagesServed(req.page) :
        /\ ListYield(req, rows,
                     ScanRows(rows, 1, ScanStart(articles_seen), req.code, cutoff_date))
        /\ UNCHANGED <<since_days, cutoff_date, emitted, notCrawl>>

\* parse_article on the response to an article request: the datestamp of the
\* page when it has one, else the date of the list row
ArticleItem(rec, code, article_published_at) ==
    [uuid |-> rec.uuid, article_id |-> rec.article_id, stock_code |-> code,
     link |-> rec.link, article_published_at |-> article_published_at]
parse_article ==
    \E req \in {q \in requests : q.cb = "article"}, published_raw \in ArticleDatestamps :
        /\ emitted' = emitted \cup
               {ArticleItem(ItemNews_article_record(req.url), req.code,
                            OrElse(ItemNews_to_yymmdd(Clean(published_raw)), req.hint))}
        /\ requests' = requests \ {req}
        /\ last_list' = NoList
        /\ UNCHANGED <<since_days, cutoff_date, articles_seen, notCrawl>>

CrawlNext == start_requests \/ parse_finance_list \/ parse_article
InitCrawl == CrawlInit /\ DateIdle /\ CleanIdle /\ UrlIdle /\ PipeIdle /\ BodyIdle /\ ReportIdle /\ CodesIdle /\ BoardIdle /\ HciIdle /\ GenIdle /\ DetIdle /\ MsIdle /\ NatIdle /\ SecIdle /\ ShIdle
SpecItemNews == InitCrawl /\ [][CrawlNext]_vars

\* a row dated on or after the cutoff day
RecentRow(row) == row.dated = "day" /\ row.age <= since_days
\* an earlier row of the page ended the callback
AbortedBefore(rows, i) ==
    \E k \in 1..(i - 1) : rows[k].href # NoUrl /\ rows[k].dated = "impossible"
\* no request for the article of row i has been made before row i
FreshRow(rows, i) ==
    /\ ArticleUrl(ListedOid, rows[i].aid) \notin last_list.seen_before
    /\ \A k \in 1..(i - 1) :
          ~(rows[k].href # NoUrl /\ RecentRow(rows[k]) /\ rows[k].aid = rows[i].aid)
ExampleAges == <<0, 10, 400>>
IsExamplePage(rows) ==
    /\ Len(rows) = 3
    /\ \A i \in 1..3 : rows[i].href # NoUrl /\ rows[i].dated = "day"
                       /\ rows[i].age = ExampleAges[i]
    /\ FreshRow(rows, 1) /\ FreshRow(rows, 2)

\* C4: parse_finance_list schedules a row only if its date is on or after the
\* cutoff; a row that links an article not requested before and is dated on
\* or after the cutoff is scheduled whatever stale rows precede it; of rows
\* dated today, today-10, today-400 with since_days = 365 exactly the first
\* two are scheduled
C4_SkipStaleKeepScanning ==
    last_list.page > 0 =>
        LET rows == last_list.rows
        IN  /\ \A i \in last_list.scheduled : RecentRow(rows[i])
            /\ \A i \in 1..Len(rows) :
                  (rows[i].href # NoUrl /\ RecentRow(rows[i])
                   /\ ~AbortedBefore(rows, i) /\ FreshRow(rows, i))
                  => i \in last_list.scheduled
            /\ (since_days = 365 /\ IsExamplePage(rows)) => last_list.scheduled = {1, 2}

\* the example page has been parsed with a 365-day cutoff
C4_Witness ==
    /\ last_list.page > 0 /\ since_days = 365
    /\ IsExamplePage(last_list.rows)
    /\ last_list.scheduled = {1, 2}

\* a stale row is followed by a recent row, which is scheduled
C4_StaleThenRecent ==
    /\ last_list.page > 0
    /\ \E i \in last_list.scheduled :
          \E k \in 1..(i - 1) : last_list.rows[k].href # NoUrl
                                /\ last_list.rows[k].dated = "day"
                                /\ ~RecentRow(last_list.rows[k])

\* the day a record's 'YY.MM.DD' article_published_at names
PublishedDay(rec) == ItemNews_to_date(rec.article_published_at)

\* C6: no emitted record with a non-null article_published_at is dated
\* before the cutoff, whether the date came from the list row or from the
\* article page
C6_NoRecordBeforeCutoff ==
    \A rec \in emitted :
        rec.article_published_at # None => DateGE(PublishedDay(rec), cutoff_date)

\* a record dated from the datestamp of its article page has been emitted
C6_Witness ==
    \E rec \in emitted :
        /\ rec.article_published_at # None
        /\ PublishedDay(rec) = DaysBefore(Today, 400)

(***************************************************************************)
(* The body text (texts) of an article record                              *)
(***************************************************************************)
\* "".join(parts) and sep.join(parts)
RECURSIVE JoinWith(_, _)
JoinWith(parts, sep) ==
    IF parts = <<>> THEN <<>>
    ELSE IF Len(parts) = 1 THEN parts[1]
    ELSE parts[1] \o sep \o JoinWith(Tail(parts), sep)

\* s.splitlines(): the pieces between line breaks, no empty last piece
RECURSIVE SplitLines(_)
SplitLines(s) ==
    IF s = <<>> THEN <<>>
    ELSE IF \E i \in 1..Len(s) : s[i] = "\n"
    THEN <<SubSeq(s, 1, (CHOOSE k \in 1..Len(s) : s[k] = "\n" /\ \A j \in 1..(k - 1) : s[j] # "\n") - 1)>>
         \o SplitLines(SubSeq(s, (CHOOSE k \in 1..Len(s) : s[k] = "\n" /\ \A j \in 1..(k - 1) : s[j] # "\n") + 1, Len(s)))
    ELSE <<s>>

\* re.sub(r"\s+", " ", ln).strip()
NormLine(ln) == Strip(CollapseSpaces(ln))
NonEmpty(t) == t # <<>>
RECURSIVE NormLines(_)
NormLines(lines) ==
    IF lines = <<>> THEN <<>> ELSE <<NormLine(lines[1])>> \o NormLines(Tail(lines))
\* [ln for ln in lines if ln]
KeptLines(s) == SelectSeq(NormLines(SplitLines(s)), NonEmpty)

\* x or None
OrNone(t) == IF t = <<>> THEN None ELSE t

\* crawler item-news _normalize_text_block: the non-empty lines joined by "\n"
Crawler_normalize_text_block(s) ==
    IF Falsy(s) THEN None ELSE OrNone(JoinWith(KeptLines(s), <<"\n">>))

\* re.sub(r"[\r\n\t]+", " ", s)
RECURSIVE SubBreaks(_)
IsBreak(c) == c \in {"\n", "\t"}
RECURSIVE SkipBreaks(_)
SkipBreaks(s) == IF s # <<>> /\ IsBreak(s[1]) THEN SkipBreaks(Tail(s)) ELSE s
SubBreaks(s) ==
    IF s = <<>> THEN <<>>
    ELSE IF IsBreak(s[1]) THEN <<" ">> \o SubBreaks(SkipBreaks(s))
    ELSE <<s[1]>> \o SubBreaks(Tail(s))

\* re.sub(r"\s{2,}", " ", s): a run of two or more whitespace becomes one
\* space, a single whitespace character stays what it is
RECURSIVE SubWide(_)
SubWide(s) ==
    IF s = <<>> THEN <<>>
    ELSE IF IsSpace(s[1]) /\ Len(s) >= 2 /\ IsSpace(s[2]) THEN <<" ">> \o SubWide(LStrip(s))
    ELSE <<s[1]>> \o SubWide(Tail(s))

\* HCI item-news _one_line
HCI_one_line(s) == IF s = None THEN None ELSE OrNone(Strip(SubWide(SubBreaks(s))))

\* HCI item-news _normalize_text_block: the non-empty lines joined by " "
HCI_normalize_text_block(s) ==
    IF Falsy(s) THEN None ELSE HCI_one_line(JoinWith(KeptLines(s), <<" ">>))

\* the containers a body selector can match, in the order the spiders try them
DicArea == "#dic_area"
NewsctArticle == "#newsct_article"
Contents == "#contents"
ArticleTag == "article"
ItemProp == "[itemprop='articleBody']"
NewsContainers == <<DicArea, NewsctArticle, Contents, ArticleTag>>
ItemNewsContainers == <<DicArea, NewsctArticle, Contents, ArticleTag, ItemProp>>
Containers == {ItemNewsContainers[i] : i \in 1..Len(ItemNewsContainers)}

\* what a container of a page holds: the text nodes of its descendant
\* elements (deep) and its own text nodes (own); each container's text is
\* written with its own letter
Mark == [c \in Containers |->
            IF c = DicArea THEN "d" ELSE IF c = NewsctArticle THEN "n"
            ELSE IF c = Contents THEN "c" ELSE IF c = ArticleTag THEN "a" ELSE "i"]
BlankNode == <<"\n", " ">>
TextNode(c) == <<" ", Mark[c], "\n", NBSP, Mark[c], "\t">>
ContainerKinds ==
    {"absent", "empty", "blank_deep", "blank_own", "text_deep", "text_own", "blank_text"}
ContainerOf(c, kind) ==
    [present |-> kind # "absent",
     deep |-> IF kind \in {"blank_deep", "blank_text"} THEN <<BlankNode>>
              ELSE IF kind = "text_deep" THEN <<TextNode(c)>> ELSE <<>>,
     own |-> IF kind = "blank_own" THEN <<BlankNode>>
             ELSE IF kind \in {"text_own", "blank_text"} THEN <<TextNode(c)>> ELSE <<>>]
RestTexts == {<<>>, <<"z", " ", " ", "z">>}
BodyPages == [kinds : [Containers -> ContainerKinds], rest : RestTexts]
Held(page, c) == ContainerOf(c, page.kinds[c])

\* response.css(c).xpath("string(.)").get(): None when nothing matches
StringOf(page, c) ==
    IF ~Held(page, c).present THEN None
    ELSE JoinWith(Held(page, c).deep \o Held(page, c).own, <<>>)
\* response.css(c + " *::text").getall() and response.css(c + "::text").getall()
NodesOf(page, sel) == IF sel[2] = "deep" THEN Held(page, sel[1]).deep ELSE Held(page, sel[1]).own
\* response.xpath("string(//body)").get()
RECURSIVE StringsOf(_, _)
StringsOf(page, cs) ==
    IF cs = <<>> THEN <<>>
    ELSE (IF StringOf(page, cs[1]) = None THEN <<>> ELSE StringOf(page, cs[1]))
         \o StringsOf(page, Tail(cs))
BodyString(page) == StringsOf(page, ItemNewsContainers) \o page.rest

\* a or b or c or d on the raw strings: the first that is not None or empty
\* (the last one when none is)
RECURSIVE FirstTruthy(_, _)
FirstTruthy(page, cs) ==
    IF Len(cs) = 1 \/ Truthy(StringOf(page, cs[1])) THEN StringOf(page, cs[1])
    ELSE FirstTruthy(page, Tail(cs))

\* naver_news parse_article (finance_test and crawler): texts = _clean(body)
News_texts(page, cs) == Clean(FirstTruthy(page, cs))

\* raw or ""
OrEmpty(raw) == IF Falsy(raw) THEN <<>> ELSE raw

\* crawler item-news parse_article: the first container whose normalised
\* text is not empty
RECURSIVE Crawler_texts(_, _)
Crawler_texts(page, cs) ==
    IF Len(cs) = 1 \/ Crawler_normalize_text_block(OrEmpty(StringOf(page, cs[1]))) # None
    THEN Crawler_normalize_text_block(OrEmpty(StringOf(page, cs[1])))
    ELSE Crawler_texts(page, Tail(cs))

\* HCI item-news parse_article: the same loop, then _one_line
RECURSIVE HCI_first_block(_, _)
HCI_first_block(page, cs) ==
    IF Len(cs) = 1 \/ HCI_normalize_text_block(OrEmpty(StringOf(page, cs[1]))) # None
    THEN HCI_normalize_text_block(OrEmpty(StringOf(page, cs[1])))
    ELSE HCI_first_block(page, Tail(cs))
HCI_texts(page, cs) == HCI_one_line(HCI_first_block(page, cs))

\* finance_test item-news _tidy_texts: the first selector that matches any
\* text node, its non-blank nodes joined by "\n"; else the text of the body
TidySelectors ==
    << <<DicArea, "deep">>, <<DicArea, "own">>,
       <<NewsctArticle, "deep">>, <<NewsctArticle, "own">>,
       <<Contents, "deep">>, <<Contents, "own">>,
       <<ArticleTag, "deep">>, <<ArticleTag, "own">> >>
CleanKeeps(p) == Clean(p) # None
TidyJoined(parts) == Clean(JoinWith(SelectSeq(parts, CleanKeeps), <<"\n">>))
RECURSIVE ItemNews_tidy_texts(_, _)
ItemNews_tidy_texts(page, sels) ==
    IF sels = <<>> THEN Clean(BodyString(page))
    ELSE IF NodesOf(page, sels[1]) # <<>> THEN TidyJoined(NodesOf(page, sels[1]))
    ELSE ItemNews_tidy_texts(page, Tail(sels))

BodyInit ==
    /\ body_page \in BodyPages
    /\ body_out = [spider |-> "none", texts |-> None]

NotRead == body_out.spider = "none"
Crawler_read_body ==
    /\ NotRead
    /\ body_out' = [spider |-> "CrawlerItemNews",
                    texts |-> Crawler_texts(body_page, ItemNewsContainers)]
    /\ UNCHANGED <<body_page, notBody>>
HCI_read_body ==
    /\ NotRead
    /\ body_out' = [spider |-> "HCI", texts |-> HCI_texts(body_page, ItemNewsContainers)]
    /\ UNCHANGED <<body_page, notBody>>
News_read_body ==
    /\ NotRead
    /\ body_out' = [spider |-> "News", texts |-> News_texts(body_page, NewsContainers)]
    /\ UNCHANGED <<body_page, notBody>>
CrawlerNews_read_body ==
    /\ NotRead
    /\ body_out' = [spider |-> "CrawlerNews", texts |-> News_texts(body_page, NewsContainers)]
    /\ UNCHANGED <<body_page, notBody>>
ItemNews_read_body ==
    /\ NotRead
    /\ body_out' = [spider |-> "ItemNews",
                    texts |-> ItemNews_tidy_texts(body_page, TidySelectors)]
    /\ UNCHANGED <<body_page, notBody>>

BodyNext ==
    \/ Crawler_read_body \/ HCI_read_body \/ News_read_body
    \/ CrawlerNews_read_body \/ ItemNews_read_body
InitBody == BodyInit /\ DateIdle /\ CleanIdle /\ UrlIdle /\ PipeIdle /\ CrawlIdle /\ ReportIdle /\ CodesIdle /\ BoardIdle /\ HciIdle /\ GenIdle /\ DetIdle /\ MsIdle /\ NatIdle /\ SecIdle /\ ShIdle
SpecBody == InitBody /\ [][BodyNext]_vars

\* the normalised text of every selector of a spider, in its priority order
NormalisedBySelector(spider, page) ==
    IF spider = "CrawlerItemNews"
    THEN [i \in 1..Len(ItemNewsContainers) |->
             Crawler_normalize_text_block(OrEmpty(StringOf(page, ItemNewsContainers[i])))]
    ELSE IF spider = "HCI"
    THEN [i \in 1..Len(ItemNewsContainers) |->
             HCI_one_line(HCI_normalize_text_block(OrEmpty(StringOf(page, ItemNewsContainers[i]))))]
    ELSE IF spider = "ItemNews"
    THEN [i \in 1..Len(TidySelectors) |-> TidyJoined(NodesOf(page, TidySelectors[i]))]
    ELSE [i \in 1..Len(NewsContainers) |-> Clean(StringOf(page, NewsContainers[i]))]

\* C11: the texts field of every news spider is the normalised text of the
\* first selector, in priority order, whose normalised text is not empty (a
\* container holding only whitespace is passed over), and texts is null only
\* when every selector's normalised text is empty
C11_FirstNonEmptyBodyWins ==
    body_out.spider # "none" =>
        LET nt == NormalisedBySelector(body_out.spider, body_page)
            hits == {i \in DOMAIN nt : nt[i] # None}
        IN  /\ hits # {} =>
                  body_out.texts = nt[CHOOSE i \in hits : \A j \in hits : i <= j]
            /\ body_out.texts = None => hits = {}

\* a spider has read a page whose #dic_area holds only whitespace and whose
\* #newsct_article holds text
C11_Witness ==
    /\ body_out.spider \in {"News", "CrawlerNews", "ItemNews"}
    /\ body_page.kinds[DicArea] = "blank_deep"
    /\ body_page.kinds[NewsctArticle] = "text_own"
    /\ body_out.texts = None


(***************************************************************************)
(* The report spiders: parse_report_list of the crawler spider, which      *)
(* stops at a row older than three days, and of the finance_test spider,   *)
(* which reads ten list pages whatever their dates                         *)
(***************************************************************************)
MaxReportRows == 2
MaxReportPage == 2
PageCeiling == 10
ProgressEvery == 10
CutoffDays == 3

\* the section names the navigation bar can give: the two the row loop
\* treats apart, any other, and a bar item without a name
CompanySection == "company analysis"
IndustrySection == "industry analysis"
ReportNames == {CompanySection, IndustrySection, "market", "None"}

\* datetime.strptime(date_str.strip(), "%y.%m.%d"): two year digits, a month
\* of one or two digits, a day of one or two digits and nothing else
TwoDigits(a, b) == 10 * DigitVal(a) + DigitVal(b)
StrptimeYear(yy) == IF yy >= 69 THEN 1900 + yy ELSE 2000 + yy
FieldLen(s, from) ==
    IF Len(s) > from /\ IsDigit(s[from]) /\ IsDigit(s[from + 1]) THEN 2
    ELSE IF Len(s) >= from /\ IsDigit(s[from]) THEN 1
    ELSE 0
FieldVal(s, from, n) == IF n = 2 THEN TwoDigits(s[from], s[from + 1]) ELSE DigitVal(s[from])
StrptimeDay(s, y, m, from, n) ==
    IF n = 0 \/ from + n - 1 # Len(s) \/ FieldVal(s, from, n) = 0 THEN ValueError
    ELSE Date(y, m, FieldVal(s, from, n))
StrptimeMonth(s, y, from, n) ==
    IF n = 0 \/ Len(s) < from + n \/ s[from + n] # "."
       \/ FieldVal(s, from, n) \notin 1..12
    THEN ValueError
    ELSE StrptimeDay(s, y, FieldVal(s, from, n), from + n + 1, FieldLen(s, from + n + 1))
Strptime_ymd(s) ==
    IF Len(s) < 4 \/ ~IsDigit(s[1]) \/ ~IsDigit(s[2]) \/ s[3] # "." THEN ValueError
    ELSE StrptimeMonth(s, StrptimeYear(TwoDigits(s[1], s[2])), 4, FieldLen(s, 4))

\* the try block of the row loop: a missing date cell has no strip()
ReportRowDate(date_str) == IF date_str = None THEN ValueError ELSE Strptime_ymd(Strip(date_str))

\* datetime.now(): the day and whether it is exactly midnight
Now == [day |-> Today, midnight |-> FALSE]
\* article_date < cutoff_date, article_date being the midnight of its day
BeforeCutoff(article_date, now) ==
    \/ ToOrdinal(article_date) < ToOrdinal(now.day) - CutoffDays
    \/ ToOrdinal(article_date) = ToOrdinal(now.day) - CutoffDays /\ ~now.midnight

\* the date cells a row can have
ReportDateTexts ==
    { <<" ", "2", "5", ".", "1", "1", ".", "0", "6", "\n">>,
      <<"2", "5", ".", "1", "1", ".", "0", "4">>,
      <<"2", "5", ".", "1", "0", ".", "0", "1">>,
      <<"2", "0", "2", "5", ".", "1", "1", ".", "0", "7">>,
      None }
\* the link texts of the first and of the second cell of a row, and the nid
\* of its _read.naver link ("None" when the row has no such link)
ReportLinkLayouts ==
    { [td1 |-> <<>>, td2 |-> <<>>, nid |-> "7"],
      [td1 |-> <<>>, td2 |-> <<"T">>, nid |-> "7"],
      [td1 |-> <<"S">>, td2 |-> <<"T">>, nid |-> "7"],
      [td1 |-> <<"S">>, td2 |-> <<" ">>, nid |-> "7"],
      [td1 |-> <<>>, td2 |-> <<"T">>, nid |-> "None"] }
ReportRows == {[date |-> d, td1 |-> l.td1, td2 |-> l.td2, nid |-> l.nid] :
                  d \in ReportDateTexts, l \in ReportLinkLayouts}
ReportPages == UNION {[1..n -> ReportRows] : n \in 0..MaxReportRows}

\* [a.strip() for a in ... if a.strip()]
StripName(a) == IF a = " " THEN "" ELSE a
RECURSIVE StrippedNonEmpty(_)
StrippedNonEmpty(as) ==
    IF as = <<>> THEN <<>>
    ELSE IF StripName(Head(as)) = "" THEN StrippedNonEmpty(Tail(as))
    ELSE <<StripName(Head(as))>> \o StrippedNonEmpty(Tail(as))
ATags(row) == StrippedNonEmpty(row.td1 \o row.td2)
TitleCandidates(row) == StrippedNonEmpty(row.td2)
FirstOrNone(as) == IF as = <<>> THEN "None" ELSE as[1]

\* a_tags[0] and a_tags[1] of a company-analysis row
RowRaises(report_name, row) == report_name = CompanySection /\ Len(ATags(row)) < 2

\* response.urljoin(href): the list page itself when the row has no link
ReportLink(row) == IF row.nid = "None" THEN "list" ELSE "read"

\* the item a row is scheduled with
ReportItem(report_name, row) ==
    [report_name |-> report_name,
     stock_name |-> IF report_name = CompanySection THEN ATags(row)[1] ELSE "None",
     category |-> IF report_name = IndustrySection THEN "td1" ELSE "None",
     title |-> IF report_name = CompanySection THEN ATags(row)[2]
               ELSE IF report_name = IndustrySection THEN FirstOrNone(TitleCandidates(row))
               ELSE FirstOrNone(ATags(row)),
     link |-> ReportLink(row),
     original_id |-> row.nid,
     article_published_at |-> row.date]

\* the row loop of the spider with the cutoff: the rows it has scheduled, whether
\* it stopped at a stale row, and the exception that ended it
RECURSIVE CutoffScan(_, _, _, _)
CutoffScan(report_name, rows, i, acc) ==
    IF i > Len(rows) THEN [details |-> acc, stop_crawling |-> FALSE, raised |-> "none"]
    ELSE IF ReportRowDate(rows[i].date) = ValueError
    THEN CutoffScan(report_name, rows, i + 1, acc)
    ELSE IF BeforeCutoff(ReportRowDate(rows[i].date), Now)
    THEN [details |-> acc, stop_crawling |-> TRUE, raised |-> "none"]
    ELSE IF RowRaises(report_name, rows[i])
    THEN [details |-> acc, stop_crawling |-> FALSE, raised |-> "IndexError"]
    ELSE CutoffScan(report_name, rows, i + 1,
                    Append(acc, [row |-> i, item |-> ReportItem(report_name, rows[i])]))

\* the row loop of the spider without a cutoff
RECURSIVE PlainScan(_, _, _, _)
PlainScan(report_name, rows, i, acc) ==
    IF i > Len(rows) THEN [details |-> acc, stop_crawling |-> FALSE, raised |-> "none"]
    ELSE IF RowRaises(report_name, rows[i])
    THEN [details |-> acc, stop_crawling |-> FALSE, raised |-> "IndexError"]
    ELSE PlainScan(report_name, rows, i + 1,
                   Append(acc, [row |-> i, item |-> ReportItem(report_name, rows[i])]))

ReportScan(variant, report_name, rows) ==
    IF variant = "cutoff" THEN CutoffScan(report_name, rows, 1, <<>>)
    ELSE PlainScan(report_name, rows, 1, <<>>)

ReportListRequest(report_name, page) == [section |-> report_name, page |-> page]

ReportInit ==
    /\ report_variant \in {"cutoff", "plain"}
    /\ report_requests = {} /\ section_seen = {}
    /\ total_pages = 0 /\ pages_processed = 0
    /\ report_list = [section |-> "none", page |-> 0, rows |-> <<>>, details |-> <<>>,
                      stop_crawling |-> FALSE, next |-> FALSE, raised |-> "none"]

\* parse: one list request for the section of the navigation bar
report_parse ==
    \E report_name \in ReportNames :
        /\ report_list.section = "none" /\ report_requests = {}
        /\ report_requests' = {ReportListRequest(report_name, 1)}
        /\ report_list' = [report_list EXCEPT !.section = "nav"]
        /\ UNCHANGED <<report_variant, section_seen, total_pages, pages_processed, notReport>>

\* the pages the site serves: full pages at the head of a section, short
\* ones after it; a section has no page after MaxReportPage
ReportPagesServed(page) ==
    IF page = 1 THEN ReportPages ELSE {rows \in ReportPages : Len(rows) <= 1}
NextLinks(page) == IF page < MaxReportPage THEN BOOLEAN ELSE {FALSE}
\* the page number of the last-page link, 0 when the page has none
LastPageLinks == {0, MaxReportPage}

\* the next page followed whether or not the loop met a stale row
GoesOn_IgnoringStop(variant, page, scan, has_next) ==
    /\ scan.raised = "none" /\ has_next
    /\ variant = "cutoff" \/ page < PageCeiling

\* whether the code after the loop goes on to the next page
GoesOn(variant, page, scan, has_next) ==
    /\ scan.raised = "none" /\ has_next
    /\ IF variant = "cutoff" THEN ~scan.stop_crawling ELSE page < PageCeiling
\* the section totals after the first page of a section
TotalAfter(variant, report_name, last_page) ==
    IF variant = "cutoff" /\ report_name \notin section_seen
    THEN total_pages + last_page ELSE total_pages
ProcessedAfter(variant, goes_on) ==
    IF variant = "cutoff" /\ goes_on THEN pages_processed + 1 ELSE pages_processed
\* the progress line divides by self.total_pages
ProgressRaises(variant, goes_on, processed, total) ==
    /\ variant = "cutoff" /\ goes_on
    /\ processed % ProgressEvery = 0 \/ processed = total
    /\ total = 0
ListRaised(scan, progress_raises) ==
    IF scan.raised # "none" THEN scan.raised
    ELSE IF progress_raises THEN "ZeroDivisionError" ELSE "none"
ReportListYield(req, rows, scan, goes_on, progress_raises) ==
    [section |-> req.section, page |-> req.page, rows |-> rows, details |-> scan.details,
     stop_crawling |-> scan.stop_crawling, next |-> goes_on /\ ~progress_raises,
     raised |-> ListRaised(scan, progress_raises)]
ReportListStep(req, rows, last_page, scan, goes_on) ==
    /\ section_seen' = IF report_variant = "cutoff" THEN section_seen \cup {req.section}
                       ELSE section_seen
    /\ total_pages' = TotalAfter(report_variant, req.section, last_page)
    /\ pages_processed' = ProcessedAfter(report_variant, goes_on)
    /\ report_list' = ReportListYield(req, rows, scan, goes_on,
                          ProgressRaises(report_variant, goes_on,
                                         ProcessedAfter(report_variant, goes_on),
                                         TotalAfter(report_variant, req.section, last_page)))
    /\ report_requests' = (report_requests \ {req}) \cup
           (IF report_list'.next THEN {ReportListRequest(req.section, req.page + 1)} ELSE {})
    /\ UNCHANGED <<report_variant, notReport>>

parse_report_list ==
    \E req \in report_requests :
        \E rows \in ReportPagesServed(req.page), has_next \in NextLinks(req.page),
           last_page \in LastPageLinks :
            ReportListStep(req, rows, last_page,
                           ReportScan(report_variant, req.section, rows),
                           GoesOn(report_variant, req.page,
                                  ReportScan(report_variant, req.section, rows), has_next))

ReportNext == report_parse \/ parse_report_list
InitReport == ReportInit /\ DateIdle /\ CleanIdle /\ UrlIdle /\ PipeIdle /\ CrawlIdle /\ BodyIdle /\ CodesIdle /\ BoardIdle /\ HciIdle /\ GenIdle /\ DetIdle /\ MsIdle /\ NatIdle /\ SecIdle /\ ShIdle
SpecReport == InitReport /\ [][ReportNext]_vars

\* C12: no list callback raises, whatever a row lacks; in particular a
\* company-analysis row is scheduled whatever number of link texts it has
C12_ListRowNeverRaises == report_list.raised = "none"

\* a company-analysis page with a row of fewer than two link texts was parsed
C12_Witness ==
    /\ report_list.section = CompanySection
    /\ \E i \in 1..Len(report_list.rows) : Len(ATags(report_list.rows[i])) < 2
    /\ report_list.raised = "IndexError"


(***************************************************************************)
(* Start-up of the code-driven spiders: reading the entity-code file and   *)
(* seeding one list request per code                                       *)
(***************************************************************************)
MaxLines == 3

BOM == "bom"
\* the characters of the model in code-point order
CharOrder == <<"\t", "\n", " ", "#", ",">> \o Digits \o <<"a", NBSP, BOM>>
CharRank(c) == CHOOSE i \in 1..Len(CharOrder) : CharOrder[i] = c
RECURSIVE TextLT(_, _)
TextLT(a, b) ==
    IF a = <<>> THEN b # <<>>
    ELSE IF b = <<>> THEN FALSE
    ELSE IF a[1] = b[1] THEN TextLT(Tail(a), Tail(b))
    ELSE CharRank(a[1]) < CharRank(b[1])
\* sorted(set(codes))
RECURSIVE SortedSet(_)
SortedSet(S) ==
    IF S = {} THEN <<>>
    ELSE <<CHOOSE a \in S : \A b \in S : a = b \/ TextLT(a, b)>>
         \o SortedSet(S \ {CHOOSE a \in S : \A b \in S : a = b \/ TextLT(a, b)})
Elements(seq) == {seq[i] : i \in 1..Len(seq)}

\* the lines a code file is written from
Samsung == <<"0", "0", "5", "9", "3", "0">>
Hynix == <<"0", "0", "0", "6", "6", "0">>
CodeLines ==
    { Samsung,
      Hynix,
      <<" ">> \o Samsung \o <<"\t">>,
      <<>>,
      <<"#">> \o Samsung,
      <<"0", "0", "5", "9", "3">>,
      Samsung \o <<"1">>,
      <<"0", "0", "5", "9", "3", "a">> }
LineSeqs == UNION {[1..n -> CodeLines] : n \in 0..MaxLines}
\* a missing file, and the files with and without a byte-order mark
MissingFile == [exists |-> FALSE, text |-> <<>>]
CodeFiles ==
    {MissingFile}
    \cup {[exists |-> TRUE, text |-> JoinWith(ls, <<"\n">>)] : ls \in LineSeqs}
    \cup {[exists |-> TRUE, text |-> <<BOM>> \o JoinWith(ls, <<"\n">>)] : ls \in LineSeqs}

\* path.exists() taken for granted
PathExists_Assumed(file) == TRUE

\* path.exists()
PathExists(file) == file.exists

\* read_text(encoding="utf-8-sig") drops a leading byte-order mark,
\* read_text(encoding="utf-8") keeps it
ReadSig(file) == IF file.text # <<>> /\ file.text[1] = BOM THEN Tail(file.text) ELSE file.text
ReadUtf8(file) == file.text

\* re.fullmatch(r"\d{6}", ln)
IsCode(ln) == Len(ln) = 6 /\ \A i \in 1..6 : IsDigit(ln[i])

\* the codes list without its repeats, first occurrences in order
RECURSIVE Uniq(_, _)
Uniq(codes, seen) ==
    IF codes = <<>> THEN <<>>
    ELSE IF Head(codes) \in seen THEN Uniq(Tail(codes), seen)
    ELSE <<Head(codes)>> \o Uniq(Tail(codes), seen \cup {Head(codes)})

\* the stripped lines that pass a spider's test, in file order
RECURSIVE ItemNewsKept(_)
ItemNewsKept(lines) ==
    IF lines = <<>> THEN <<>>
    ELSE IF Strip(Head(lines)) = <<>> \/ Strip(Head(lines))[1] = "#" \/ ~IsCode(Strip(Head(lines)))
    THEN ItemNewsKept(Tail(lines))
    ELSE <<Strip(Head(lines))>> \o ItemNewsKept(Tail(lines))
RECURSIVE MatchingCodes(_)
MatchingCodes(lines) ==
    IF lines = <<>> THEN <<>>
    ELSE IF IsCode(Strip(Head(lines))) THEN <<Strip(Head(lines))>> \o MatchingCodes(Tail(lines))
    ELSE MatchingCodes(Tail(lines))
RECURSIVE StrippedNonBlank(_)
StrippedNonBlank(lines) ==
    IF lines = <<>> THEN <<>>
    ELSE IF Strip(Head(lines)) = <<>> THEN StrippedNonBlank(Tail(lines))
    ELSE <<Strip(Head(lines))>> \o StrippedNonBlank(Tail(lines))

\* finance_test item-news _load_codes
ItemNews_load_codes(file) ==
    IF ~PathExists(file) THEN <<>>
    ELSE Uniq(ItemNewsKept(SplitLines(ReadSig(file))), {})

\* HCI and crawler item-news _read_codes, once the file is known to exist
ReadCodes(file) == SortedSet(Elements(MatchingCodes(SplitLines(ReadUtf8(file)))))

\* codes.split(",")
RECURSIVE SplitComma(_)
SplitComma(s) ==
    IF \E i \in 1..Len(s) : s[i] = ","
    THEN <<SubSeq(s, 1, (CHOOSE k \in 1..Len(s) : s[k] = "," /\ \A j \in 1..(k - 1) : s[j] # ",") - 1)>>
         \o SplitComma(SubSeq(s, (CHOOSE k \in 1..Len(s) : s[k] = "," /\ \A j \in 1..(k - 1) : s[j] # ",") + 1, Len(s)))
    ELSE <<s>>

\* the code and codes arguments of the board spider
CodeArg == <<" ">> \o Samsung
CodesArg == Hynix \o <<",", " ">> \o Samsung \o <<",", ",">> \o Hynix
ExplicitArgs == {"none", "code", "codes"}
\* first_n: 0 stands for the argument left out
FirstNArgs == {0, 1}

\* board __init__: base_codes
BoardBaseCodes(explicit, file) ==
    IF explicit = "code" THEN <<Strip(CodeArg)>>
    ELSE IF explicit = "codes" THEN StrippedNonBlank(SplitComma(CodesArg))
    ELSE StrippedNonBlank(SplitLines(ReadUtf8(file)))
FirstN(codes, first_n) ==
    IF first_n = 0 THEN codes ELSE SubSeq(codes, 1, IF first_n < Len(codes) THEN first_n ELSE Len(codes))
BoardCodes(explicit, file, first_n) ==
    FirstN(SortedSet(Elements(BoardBaseCodes(explicit, file))), first_n)

\* start_requests: one request for the first page of each code
SeedsOf(codes) == [i \in 1..Len(codes) |-> [code |-> codes[i], page |-> FirstPage]]

Started(spider, explicit, first_n, error, codes) ==
    [spider |-> spider, explicit |-> explicit, first_n |-> first_n, error |-> error,
     seeds |-> IF error = "none" THEN SeedsOf(codes) ELSE <<>>]

CodesInit ==
    /\ codes_file \in CodeFiles
    /\ codes_out = [spider |-> "none", explicit |-> "none", first_n |-> 0,
                    error |-> "none", seeds |-> <<>>]
NotStarted == codes_out.spider = "none"

\* finance_test item-news: __init__ raises when no code was read
ItemNews_startup ==
    /\ NotStarted
    /\ codes_out' = Started("ItemNews", "none", 0,
                            IF ItemNews_load_codes(codes_file) = <<>> THEN "ValueError" ELSE "none",
                            ItemNews_load_codes(codes_file))
    /\ UNCHANGED <<codes_file, notCodes>>

\* _read_codes at the head of start_requests
ReadCodesError(file) == IF PathExists(file) THEN "none" ELSE "FileNotFoundError"
HCI_startup ==
    /\ NotStarted
    /\ codes_out' = Started("HCI", "none", 0, ReadCodesError(codes_file), ReadCodes(codes_file))
    /\ UNCHANGED <<codes_file, notCodes>>
CrawlerItemNews_startup ==
    /\ NotStarted
    /\ codes_out' = Started("CrawlerItemNews", "none", 0, ReadCodesError(codes_file),
                            ReadCodes(codes_file))
    /\ UNCHANGED <<codes_file, notCodes>>

\* board spider: the file is looked at only without code and codes
BoardError(explicit, file) ==
    IF explicit = "none" /\ ~PathExists(file) THEN "FileNotFoundError" ELSE "none"
Board_startup ==
    \E explicit \in ExplicitArgs, first_n \in FirstNArgs :
        /\ NotStarted
        /\ codes_out' = Started("Board", explicit, first_n, BoardError(explicit, codes_file),
                                BoardCodes(explicit, codes_file, first_n))
        /\ UNCHANGED <<codes_file, notCodes>>

CodesNext == ItemNews_startup \/ HCI_startup \/ CrawlerItemNews_startup \/ Board_startup
InitCodes == CodesInit /\ DateIdle /\ CleanIdle /\ UrlIdle /\ PipeIdle /\ CrawlIdle /\ BodyIdle /\ ReportIdle /\ BoardIdle /\ HciIdle /\ GenIdle /\ DetIdle /\ MsIdle /\ NatIdle /\ SecIdle /\ ShIdle
SpecCodes == InitCodes /\ [][CodesNext]_vars

FileLines(file) == Elements(StrippedNonBlank(SplitLines(ReadSig(file))))
SeededCodes == {codes_out.seeds[i].code : i \in 1..Len(codes_out.seeds)}
SeedsFor(code) == {i \in 1..Len(codes_out.seeds) : codes_out.seeds[i].code = code}
FromFile == codes_out.spider # "none" /\ codes_out.explicit = "none" /\ codes_out.error = "none"

\* C14: every seed request read from a file is a first-page request for a
\* code of exactly six digits that is a whole line of the file, so that blank,
\* comment and malformed lines seed nothing, and every such code of the file
\* seeds exactly one request
C14_SeedsAreTheCodesOfTheFile ==
    FromFile =>
        /\ \A i \in 1..Len(codes_out.seeds) :
              /\ IsCode(codes_out.seeds[i].code)
              /\ codes_out.seeds[i].code \in FileLines(codes_file)
              /\ codes_out.seeds[i].page = FirstPage
        /\ \A code \in SeededCodes : Cardinality(SeedsFor(code)) = 1
        /\ codes_out.first_n = 0 =>
              \A code \in FileLines(codes_file) : IsCode(code) => code \in SeededCodes

\* the board spider was started on a file with a comment line
C14_Witness ==
    /\ codes_out.spider = "Board" /\ codes_out.explicit = "none"
    /\ <<"#">> \o Samsung \in SeededCodes


(***************************************************************************)
(* The finance_test board spider: list pages of one code, the detail page  *)
(* of each post, and a re-crawl of the same board by a later run           *)
(***************************************************************************)
MaxBoardRows == 2
MaxBoardPage == 2
BoardSinceDays == 365
EndPageArgs == {0, 1}

BoardCode == Samsung
Nids == {<<"1", "1">>, <<"1", "2">>}
\* the rows of a board page: the link of the title cell ("read" for a
\* board_read.naver link), the nid of its query, and the date cell, written
\* from the day the row is dated (age: days before today), or empty, or
\* naming a day no calendar has
BoardRows ==
    { [link |-> "read", nid |-> n, dated |-> "day", age |-> 0,
       date_text |-> DayText(Today, ".")] : n \in Nids }
    \cup { [link |-> "read", nid |-> <<"1", "1">>, dated |-> "day", age |-> 400,
            date_text |-> DayText(DaysBefore(Today, 400), ".")],
           [link |-> "read", nid |-> <<"1", "2">>, dated |-> "none", age |-> 0,
            date_text |-> None],
           [link |-> "none", nid |-> <<"1", "1">>, dated |-> "day", age |-> 0,
            date_text |-> DayText(Today, ".")],
           [link |-> "read", nid |-> None, dated |-> "day", age |-> 0,
            date_text |-> DayText(Today, ".")],
           [link |-> "read", nid |-> <<"1", "2">>, dated |-> "impossible", age |-> 0,
            date_text |-> ImpossibleDayText] }
BoardPages == UNION {[1..n -> BoardRows] : n \in 0..MaxBoardRows}

\* NaverSpider._to_yymmdd
Board_to_yymmdd(s) ==
    IF Board_parse_to_date(s) \in {NoDate, ValueError} THEN None
    ELSE Fmt02(Board_parse_to_date(s).y % 100) \o <<".">> \o Fmt02(Board_parse_to_date(s).m)
         \o <<".">> \o Fmt02(Board_parse_to_date(s).d)
BoardFieldsOfRow ==
    [tr \in BoardRows |-> [dt |-> Board_parse_to_date(tr.date_text),
                           uploaded_at |-> Board_to_yymmdd(tr.date_text)]]

\* DETAIL_URL_TPL.format(code=code, nid=nid, page=page)
DetailUrl(code, nid, page) == [code |-> code, nid |-> nid, page |-> page]
NoDetailUrl == [code |-> <<>>, nid |-> <<>>, page |-> 0]
BoardListRequest(page) ==
    [cb |-> "list", page |-> page, link |-> NoDetailUrl, uploaded_at |-> None]
BoardDetailRequest(cb, link, uploaded_at) ==
    [cb |-> cb, page |-> 0, link |-> link, uploaded_at |-> uploaded_at]

\* the cutoff test that lets every row pass
PassCutoff_Always(dt, cutoff) == TRUE

\* pass_cutoff = (dt is None) or (dt >= self.cutoff_date)
PassCutoff(dt, cutoff) == dt = NoDate \/ DateGE(dt, cutoff)

BoardCutoff == DaysBefore(Today, BoardSinceDays)

\* one turn of the row loop of parse_list
BoardScanRow(acc, i, tr, f, page) ==
    IF tr.link # "read" THEN acc
    ELSE IF f.dt = ValueError THEN [acc EXCEPT !.raised = TRUE]
    ELSE IF ~PassCutoff(f.dt, BoardCutoff) THEN acc
    ELSE IF tr.nid = None \/ tr.nid \in acc.seen THEN [acc EXCEPT !.passed = TRUE]
    ELSE [acc EXCEPT !.passed = TRUE,
                     !.seen = acc.seen \cup {tr.nid},
                     !.scheduled = acc.scheduled \cup {i},
                     !.out = acc.out \cup {BoardDetailRequest("detail",
                                               DetailUrl(BoardCode, tr.nid, page),
                                               f.uploaded_at)}]
RECURSIVE BoardScanRows(_, _, _, _)
BoardScanRows(rows, i, acc, page) ==
    IF i > Len(rows) \/ acc.raised THEN acc
    ELSE BoardScanRows(rows, i + 1,
                       BoardScanRow(acc, i, rows[i], BoardFieldsOfRow[rows[i]], page), page)
BoardScanStart(seen) ==
    [seen |-> seen, out |-> {}, scheduled |-> {}, passed |-> FALSE, raised |-> FALSE]

\* the pagination after the loop
BoardGoesOn(page, r) ==
    /\ ~r.raised
    /\ ~(end_page # 0 /\ page + 1 > end_page)
    /\ r.passed
BoardNextPage(page, r) == IF BoardGoesOn(page, r) THEN {BoardListRequest(page + 1)} ELSE {}

NoBoardList == [page |-> 0, rows |-> <<>>, seen_before |-> {}, scheduled |-> {},
                passed |-> FALSE, next |-> FALSE, raised |-> FALSE]
BoardInit ==
    /\ end_page \in EndPageArgs
    /\ seen_nids = {}
    /\ board_requests = {BoardListRequest(FirstPage)}
    /\ board_emitted = {}
    /\ board_run = "crawl"
    /\ board_list = NoBoardList

\* the board has pages up to MaxBoardPage, full at its head and short after
BoardPagesServed(page) ==
    IF page = FirstPage THEN BoardPages
    ELSE IF page <= MaxBoardPage THEN {rows \in BoardPages : Len(rows) <= 1}
    ELSE {<<>>}

BoardListYield(req, rows, r) ==
    /\ seen_nids' = r.seen
    /\ board_requests' = (board_requests \ {req}) \cup r.out \cup BoardNextPage(req.page, r)
    /\ board_list' = [page |-> req.page, rows |-> rows, seen_before |-> seen_nids,
                      scheduled |-> r.scheduled, passed |-> r.passed,
                      next |-> BoardGoesOn(req.page, r), raised |-> r.raised]
    /\ UNCHANGED <<end_page, board_emitted, board_run, notBoard>>
board_parse_list ==
    \E req \in {q \in board_requests : q.cb = "list"} :
        \E rows \in BoardPagesServed(req.page) :
            BoardListYield(req, rows, BoardScanRows(rows, 1, BoardScanStart(seen_nids), req.page))

\* the record of a post: its id is the uuid5 of the detail link
BoardItem(req, texts) ==
    [id |-> Uuid5(NAMESPACE_URL, req.link), code |-> req.link.code, link |-> req.link,
     uploaded_at |-> req.uploaded_at, texts |-> texts]

\* parse_detail: the record when the page holds the text or has no iframe,
\* else the request for the iframe
DetailKinds == {"texts", "iframe", "bare"}
board_parse_detail ==
    \E req \in {q \in board_requests : q.cb = "detail"}, kind \in DetailKinds :
        /\ board_requests' = (board_requests \ {req}) \cup
               (IF kind = "iframe" THEN {BoardDetailRequest("iframe", req.link, req.uploaded_at)}
                ELSE {})
        /\ board_emitted' = board_emitted \cup
               (IF kind = "texts" THEN {BoardItem(req, "text")}
                ELSE IF kind = "bare" THEN {BoardItem(req, "None")}
                ELSE {})
        /\ board_list' = NoBoardList
        /\ UNCHANGED <<end_page, seen_nids, board_run, notBoard>>

\* parse_iframe: the record, with the text of the iframe document or none
board_parse_iframe ==
    \E req \in {q \in board_requests : q.cb = "iframe"}, texts \in {"iframe text", "None"} :
        /\ board_requests' = board_requests \ {req}
        /\ board_emitted' = board_emitted \cup {BoardItem(req, texts)}
        /\ board_list' = NoBoardList
        /\ UNCHANGED <<end_page, seen_nids, board_run, notBoard>>

\* a later run of the spider over the same board: a new process, whose
\* records join those of the earlier runs
board_recrawl ==
    /\ board_requests = {} /\ board_run = "crawl"
    /\ board_run' = "re-crawl"
    /\ seen_nids' = {}
    /\ board_requests' = {BoardListRequest(FirstPage)}
    /\ board_list' = NoBoardList
    /\ UNCHANGED <<end_page, board_emitted, notBoard>>

BoardNext == board_parse_list \/ board_parse_detail \/ board_parse_iframe \/ board_recrawl
InitBoard == BoardInit /\ DateIdle /\ CleanIdle /\ UrlIdle /\ PipeIdle /\ CrawlIdle /\ BodyIdle /\ ReportIdle /\ CodesIdle /\ HciIdle /\ GenIdle /\ DetIdle /\ MsIdle /\ NatIdle /\ SecIdle /\ ShIdle
SpecBoard == InitBoard /\ [][BoardNext]_vars

\* C15: the records of one post (code, nid) carry the same id and the same
\* link, whichever list page the post was found on and in whichever run
C15_SameIdForSamePost ==
    \A a \in board_emitted, b \in board_emitted :
        (a.code = b.code /\ a.link.nid = b.link.nid) => (a.id = b.id /\ a.link = b.link)

\* one post was found on the first page by one run and on the second page
\* by another
C15_Witness ==
    \E a \in board_emitted, b \in board_emitted :
        /\ a.link.nid = b.link.nid /\ a.link.page = FirstPage /\ b.link.page = FirstPage + 1


\* the rows of the page parsed last that the cutoff spider's loop reads as
\* stale, and those whose date it cannot parse
ParsedList == report_variant = "cutoff" /\ report_list.page > 0
Unparsed(i) == ReportRowDate(report_list.rows[i].date) = ValueError
StaleRow(i) == ~Unparsed(i) /\ BeforeCutoff(ReportRowDate(report_list.rows[i].date), Now)
ScheduledRows == {report_list.details[j].row : j \in 1..Len(report_list.details)}
\* the loop got as far as row i: no earlier row was stale or raised
LoopReaches(i) ==
    \A k \in 1..(i - 1) :
        /\ ~StaleRow(k)
        /\ Unparsed(k) \/ ~RowRaises(report_list.section, report_list.rows[k])

\* C16: in the cutoff report spider a stale row ends the page loop: no row
\* at or after the first stale row is scheduled and the next page is not
\* requested; a row whose date cannot be parsed is passed over, and the rows
\* after it are still read
C16_StaleRowStopsThePage ==
    ParsedList =>
        /\ \A k \in 1..Len(report_list.rows) :
              StaleRow(k) => /\ \A i \in ScheduledRows : i < k
                             /\ ~report_list.next
        /\ \A i \in 1..Len(report_list.rows) :
              (LoopReaches(i) /\ Unparsed(i)) => i \notin ScheduledRows
        /\ \A i \in 1..Len(report_list.rows) :
              (LoopReaches(i) /\ ~Unparsed(i) /\ ~StaleRow(i)
               /\ ~RowRaises(report_list.section, report_list.rows[i]))
                  => i \in ScheduledRows
        /\ report_list.stop_crawling <=>
              \E k \in 1..Len(report_list.rows) : StaleRow(k) /\ LoopReaches(k)

\* a stale row is followed by a row that is not stale and could be
\* scheduled: nothing is scheduled and the next page is not requested
C16_Witness ==
    /\ ParsedList /\ Len(report_list.rows) = 2
    /\ StaleRow(1)
    /\ ~Unparsed(2) /\ ~StaleRow(2)
    /\ ~RowRaises(report_list.section, report_list.rows[2])
    /\ ScheduledRows = {}
    /\ report_list.stop_crawling /\ ~report_list.next

\* an unparsable row is followed by a row that is scheduled
C16_UnparsedThenScheduled ==
    /\ ParsedList
    /\ \E i \in ScheduledRows : \E k \in 1..(i - 1) : Unparsed(k)


(***************************************************************************)
(* The two spiders that scan a whole list page before they decide on the   *)
(* next one: finance_test item-news and the finance_test board spider      *)
(***************************************************************************)
ScanPagesInit == (CrawlInit /\ BoardIdle) \/ (BoardInit /\ CrawlIdle)
ScanPagesNext == CrawlNext \/ BoardNext
InitScanPages == ScanPagesInit /\ DateIdle /\ CleanIdle /\ UrlIdle /\ PipeIdle /\ BodyIdle /\ ReportIdle /\ CodesIdle /\ HciIdle /\ GenIdle /\ DetIdle /\ MsIdle /\ NatIdle /\ SecIdle /\ ShIdle
SpecScanPages == InitScanPages /\ [][ScanPagesNext]_vars

\* a row the item-news loop counts as recent, and one the board loop lets
\* pass: the board spider lets a row without a date pass
ItemNewsPassed(row) == row.href # NoUrl /\ RecentRow(row)
BoardPassed(row) ==
    /\ row.link = "read"
    /\ row.dated = "none" \/ (row.dated = "day" /\ row.age <= BoardSinceDays)
\* the nid of a board row was seen before the row was read
NidSeenBefore(i) ==
    \/ board_list.rows[i].nid \in board_list.seen_before
    \/ \E k \in 1..(i - 1) : /\ BoardPassed(board_list.rows[k])
                             /\ board_list.rows[k].nid = board_list.rows[i].nid

\* C17: after a list page was scanned to its end, the next page of the code
\* is requested if and only if a row of the page passed the cutoff (and, in
\* the board spider, the next page is not beyond end_page); a row that was
\* not scheduled because its URL or nid had been seen counts as passed
C17_NextPageIffARowPassed ==
    /\ (last_list.page > 0 /\ ~last_list.raised) =>
          (last_list.next <=>
              \E i \in 1..Len(last_list.rows) : ItemNewsPassed(last_list.rows[i]))
    /\ (board_list.page > 0 /\ ~board_list.raised) =>
          (board_list.next <=>
              /\ \E i \in 1..Len(board_list.rows) : BoardPassed(board_list.rows[i])
              /\ end_page = 0 \/ board_list.page + 1 <= end_page)

\* a board page whose only passing row has a nid seen on an earlier page:
\* nothing is scheduled and the next page is requested
C17_Witness ==
    /\ board_list.page > FirstPage /\ Len(board_list.rows) = 1
    /\ BoardPassed(board_list.rows[1]) /\ NidSeenBefore(1)
    /\ board_list.scheduled = {}
    /\ board_list.next

\* the same on an item-news page: the article of its only recent row was
\* requested from an earlier page
C17_ItemNewsSeenRow ==
    /\ last_list.page > FirstPage /\ Len(last_list.rows) = 1
    /\ ItemNewsPassed(last_list.rows[1]) /\ ~FreshRow(last_list.rows, 1)
    /\ last_list.scheduled = {}
    /\ last_list.next

\* a scanned page without a passing row: the code ends there
C17_NoRowPassed ==
    /\ board_list.page > 0 /\ ~board_list.raised /\ board_list.rows # <<>>
    /\ ~board_list.next /\ end_page = 0


(***************************************************************************)
(* parse_list of the HCI and crawler item-news spiders: every article row  *)
(* is scheduled (the HCI spider leaves out rows older than its cutoff),    *)
(* and the next page follows up to max_pages and the last page of the list *)
(***************************************************************************)
\* the max_pages argument of the command line: left out, or the text of a
\* number
MaxPagesArgs == {None, <<"0">>, <<"1">>, <<"2">>}
\* int(max_pages) if max_pages else None
IntOrNone(arg) ==
    IF arg = None \/ arg = <<>> THEN <<>>
    ELSE <<CHOOSE n \in 0..9 : arg = <<Digits[n + 1]>> >>
HciSinceDaysArgs == {0, 5, 365}
\* the page number of the last-page link of a list page, 0 for no link
LastPageLinkArgs == {0, 1, 2}

\* a title link that is no article link
OtherHref == [scheme |-> "https", host |-> "finance.naver.com",
              path |-> <<<<"i", "t", "e", "m">>, <<"m", "a", "i", "n">>>>, query |-> <<>>]
HciRows ==
    Rows \cup { [aid |-> <<"4", "2">>, href |-> OtherHref, dated |-> "day", age |-> 0,
                 date_text |-> DayText(Today, ".")] }
HciListPages == UNION {[1..n -> HciRows] : n \in 0..MaxRows}

\* "/item/news_read.naver" in href or "/news/news_read.naver" in href
IsArticleLink(href) ==
    /\ href # NoUrl
    /\ \E i \in 2..Len(href.path) :
          /\ href.path[i] = NewsRead
          /\ href.path[i - 1] \in {<<"i", "t", "e", "m">>, <<"n", "e", "w", "s">>}

\* _to_date(_clean(date cell)) of every row
HciDateOfRow == [tr \in HciRows |-> HCI_to_date(Clean(tr.date_text))]

\* self.cutoff_date
HciCutoff(days) == IF days = 0 THEN NoDate ELSE DaysBefore(Today, days)

\* the stale test with its comparison turned round
OlderThanCutoff_Newer(dt, cutoff) == cutoff # NoDate /\ dt # NoDate /\ DateLT(cutoff, dt)

\* if self.cutoff_date: ... if dt and dt < self.cutoff_date
OlderThanCutoff(dt, cutoff) == cutoff # NoDate /\ dt # NoDate /\ DateLT(dt, cutoff)

\* one turn of the row loop
HciScanRow(acc, i, tr, dt, cutoff) ==
    IF ~IsArticleLink(tr.href) THEN acc
    ELSE IF OlderThanCutoff(dt, cutoff)
    THEN [acc EXCEPT !.found_any = TRUE, !.hit_older_than_cutoff = TRUE]
    ELSE [acc EXCEPT !.found_any = TRUE, !.scheduled = acc.scheduled \cup {i}]
RECURSIVE HciScanRows(_, _, _, _)
HciScanRows(rows, i, acc, cutoff) ==
    IF i > Len(rows) THEN acc
    ELSE HciScanRows(rows, i + 1, HciScanRow(acc, i, rows[i], HciDateOfRow[rows[i]], cutoff),
                     cutoff)
HciScanStart == [scheduled |-> {}, found_any |-> FALSE, hit_older_than_cutoff |-> FALSE]

\* the ceiling test that lets one page more through
UnderCeiling_OneMore(page, ceiling) == ceiling = <<>> \/ page <= ceiling[1]

\* not (self.max_pages is not None and page >= self.max_pages)
UnderCeiling(page, ceiling) == ceiling = <<>> \/ page < ceiling[1]

\* the pagination after the loop
HciGoesOn(page, r, last_page) ==
    /\ ~r.hit_older_than_cutoff
    /\ UnderCeiling(page, max_pages)
    /\ r.found_any
    /\ ~(last_page # 0 /\ page >= last_page)

\* a list request, and the page whose callback issued it (0: start_requests)
HciListRequest(page, from) == [page |-> page, from |-> from]

HciInit ==
    /\ hci_spider \in {"HCI", "Crawler"}
    /\ max_pages \in {IntOrNone(arg) : arg \in MaxPagesArgs}
    /\ hci_since_days \in (IF hci_spider = "HCI" THEN HciSinceDaysArgs ELSE {0})
    /\ hci_requests = {} /\ hci_listed = {}
    /\ hci_list = [page |-> 0, rows |-> <<>>, last_page |-> 0, scheduled |-> {},
                   found_any |-> FALSE, hit_older_than_cutoff |-> FALSE, next |-> FALSE]

\* start_requests: page 1 of the code
hci_start_requests ==
    /\ hci_listed = {}
    /\ hci_requests' = {HciListRequest(FirstPage, 0)}
    /\ hci_listed' = {HciListRequest(FirstPage, 0)}
    /\ UNCHANGED <<hci_spider, max_pages, hci_since_days, hci_list, notHci>>

\* the list has a full first page and short pages up to MaxPage
HciPagesServed(page) ==
    IF page = FirstPage THEN HciListPages
    ELSE IF page <= MaxPage THEN {rows \in HciListPages : Len(rows) <= 1}
    ELSE {<<>>}

HciNext(req, goes_on) == IF goes_on THEN {HciListRequest(req.page + 1, req.page)} ELSE {}
HciListYield(req, rows, last_page, r, goes_on) ==
    /\ hci_requests' = (hci_requests \ {req}) \cup HciNext(req, goes_on)
    /\ hci_listed' = hci_listed \cup HciNext(req, goes_on)
    /\ hci_list' = [page |-> req.page, rows |-> rows, last_page |-> last_page,
                    scheduled |-> r.scheduled, found_any |-> r.found_any,
                    hit_older_than_cutoff |-> r.hit_older_than_cutoff, next |-> goes_on]
    /\ UNCHANGED <<hci_spider, max_pages, hci_since_days, notHci>>
hci_parse_list ==
    \E req \in hci_requests :
        \E rows \in HciPagesServed(req.page), last_page \in LastPageLinkArgs :
            HciListYield(req, rows, last_page,
                         HciScanRows(rows, 1, HciScanStart, HciCutoff(hci_since_days)),
                         HciGoesOn(req.page,
                                   HciScanRows(rows, 1, HciScanStart, HciCutoff(hci_since_days)),
                                   last_page))

HciListNext == hci_start_requests \/ hci_parse_list
InitHci == HciInit /\ DateIdle /\ CleanIdle /\ UrlIdle /\ PipeIdle /\ CrawlIdle /\ BodyIdle /\ ReportIdle /\ CodesIdle /\ BoardIdle /\ GenIdle /\ DetIdle /\ MsIdle /\ NatIdle /\ SecIdle /\ ShIdle
SpecListPages == InitHci /\ [][HciListNext]_vars

\* an article row of the page parsed last, and its date set against the
\* cutoff day
ArticleRow(i) == hci_list.rows[i].href \notin {NoUrl, OtherHref}
StaleArticleRow(i) ==
    /\ ArticleRow(i) /\ hci_list.rows[i].dated = "day"
    /\ hci_list.rows[i].age > hci_since_days

\* C18: in the HCI spider run with since_days, a list page with an article
\* row dated before the cutoff yields no request for the next page, and
\* every article row of the page dated on or after the cutoff, or with a
\* date that does not parse, is scheduled, also when it comes after the
\* stale row
C18_StaleRowEndsPagesKeepsRows ==
    (hci_spider = "HCI" /\ hci_since_days > 0 /\ hci_list.page > 0) =>
        /\ (\E k \in 1..Len(hci_list.rows) : StaleArticleRow(k)) => ~hci_list.next
        /\ \A i \in 1..Len(hci_list.rows) :
              (ArticleRow(i) /\ ~StaleArticleRow(i)) <=> i \in hci_list.scheduled

\* a stale row, then a recent row and a row with an impossible date, both
\* scheduled, on a page that has a further page
C18_Witness ==
    /\ hci_spider = "HCI" /\ hci_since_days > 0 /\ max_pages = <<>>
    /\ hci_list.page = FirstPage /\ Len(hci_list.rows) = 3
    /\ hci_list.last_page > FirstPage
    /\ StaleArticleRow(1)
    /\ ArticleRow(2) /\ hci_list.rows[2].dated = "day" /\ ~StaleArticleRow(2)
    /\ ArticleRow(3) /\ hci_list.rows[3].dated = "impossible"
    /\ hci_list.scheduled = {2, 3}
    /\ ~hci_list.next


\* the list requests of a run without cutoff and with the ceiling max_pages
NoCutoffRun == hci_since_days = 0 /\ max_pages # <<>>

\* C19: in an item-news run without cutoff and with max_pages = N, for
\* N >= 1, no list page with a number above N is ever requested, and page
\* p + 1 is requested only by the callback of page p
C19_CeilingFromOne ==
    (NoCutoffRun /\ max_pages[1] >= 1) =>
        \A req \in hci_listed :
            /\ req.page <= max_pages[1]
            /\ req.page > FirstPage => req.from = req.page - 1

\* the run reached its ceiling: page N = 2 was requested by page 1 and its
\* callback, with article rows and further pages in the list, asks for no
\* page 3
C19_Witness ==
    /\ NoCutoffRun /\ max_pages = <<2>>
    /\ HciListRequest(2, 1) \in hci_listed
    /\ hci_list.page = 2 /\ hci_list.found_any /\ hci_list.last_page = 0
    /\ ~hci_list.next /\ hci_requests = {}

\* C19 as stated, for every N: no list page with a number above N is ever
\* requested, and page p + 1 is requested only by the callback of page p
C19_CeilingForEveryN ==
    NoCutoffRun =>
        \A req \in hci_listed :
            /\ req.page <= max_pages[1]
            /\ req.page > FirstPage => req.from = req.page - 1


\* C20: a list page without rows ends its section: the report list callback
\* schedules no detail page, requests no next page and raises nothing
C20_EmptyPageIsTerminal ==
    (report_list.page > 0 /\ report_list.rows = <<>>) =>
        /\ report_list.details = <<>>
        /\ ~report_list.next
        /\ report_list.raised = "none"

\* a report list page without rows, whose next link was followed
C20_Witness ==
    /\ report_list.page > 0 /\ report_list.rows = <<>>
    /\ report_list.details = <<>>
    /\ report_list.next
    /\ ReportListRequest(report_list.section, report_list.page + 1) \in report_requests

\* the same page in parse_finance_list of the item-news spider ends the code
C20_ItemNewsEmptyPageEnds ==
    (last_list.page > 0 /\ last_list.rows = <<>>) =>
        /\ last_list.scheduled = {}
        /\ ~last_list.next
        /\ ~last_list.raised
C20_ItemNewsEmptyPage == last_list.page > 0 /\ last_list.rows = <<>>


\* a row of the report list page parsed last whose date is the cutoff day
OnCutoffDay(i) == ReportRowDate(report_list.rows[i].date) = DaysBefore(Today, CutoffDays)

\* C21: a row whose date is the cutoff day counts as on or after the cutoff:
\* on a report list page whose rows are all of that day and complete, every
\* row is scheduled and the loop does not stop the section
C21_CutoffDayRowIsKept ==
    (/\ report_variant = "cutoff" /\ report_list.page > 0 /\ report_list.rows # <<>>
     /\ \A i \in 1..Len(report_list.rows) :
            OnCutoffDay(i) /\ ~RowRaises(report_list.section, report_list.rows[i])) =>
        /\ Len(report_list.details) = Len(report_list.rows)
        /\ ~report_list.stop_crawling

\* a page whose first row is of the cutoff day: nothing is scheduled and the
\* section stops
C21_Witness ==
    /\ report_variant = "cutoff" /\ report_list.page > 0 /\ report_list.rows # <<>>
    /\ OnCutoffDay(1) /\ ~RowRaises(report_list.section, report_list.rows[1])
    /\ report_list.details = <<>>
    /\ report_list.stop_crawling /\ ~report_list.next


(***************************************************************************)
(* List callbacks as generators: the engine resumes each callback at its   *)
(* yield points, in any order; the row loops share the de-duplication set  *)
(* of the spider                                                           *)
(***************************************************************************)
MaxGenRows == 2
GenSpiders == {"news", "board", "item-news"}
GenCodes == {"A", "B"}
\* the key a row shows (an article URL, a post nid), or a row the loop passes
\* over before it reaches the set
RowKeys == {"k1", "k2", "skip"}
GenPages == UNION {[1..n -> RowKeys] : n \in 0..MaxGenRows}
\* how many list responses are answered in one run
GenSlots == 1..2

\* the element of the set a row stands for: seen_nids is kept per code,
\* seen_urls and articles_seen are one set for the spider
KeyOf(spider, code, k) == IF spider = "board" THEN <<code, k>> ELSE <<"all", k>>

\* the insertion left until the generator is resumed
InsertBeforeYield_After == FALSE

\* self.seen_urls.add(abs_url) / self.seen_nids[code].add(nid) /
\* self.articles_seen.add(article_url) comes before the yield of the request
InsertBeforeYield == TRUE

\* the row loop from row i on: the first row that is not passed over and whose
\* key is not in the set, Len(rows) + 1 when the loop ends without a yield
RECURSIVE NextYield(_, _, _, _)
NextYield(rows, i, code, seen) ==
    IF i > Len(rows) THEN i
    ELSE IF rows[i] = "skip" \/ KeyOf(gen_spider, code, rows[i]) \in seen
    THEN NextYield(rows, i + 1, code, seen)
    ELSE i

GenInit ==
    /\ gen_spider \in GenSpiders
    /\ gens = <<>> /\ seen_keys = {} /\ detail_requests = {}

\* a list response arrives and its callback is called: the generator exists,
\* no statement of it has run
gen_call ==
    \E code \in GenCodes, rows \in GenPages :
        /\ Len(gens) < Cardinality(GenSlots)
        /\ gens' = Append(gens, [code |-> code, rows |-> rows, pos |-> 1, pending |-> {}])
        /\ UNCHANGED <<gen_spider, seen_keys, detail_requests, notGen>>

\* what the set holds when generator g runs on: a key whose insertion was
\* left for after the yield is inserted now
SeenOnResume(g) == seen_keys \cup gens[g].pending
\* the engine asks generator g for its next request: the loop runs to the
\* next yield, or to the end of the rows
GenRunsTo(g, i, key) ==
    /\ gens' = [gens EXCEPT ![g].pos = i + 1,
                            ![g].pending = IF i > Len(gens[g].rows) \/ InsertBeforeYield
                                           THEN {} ELSE {key}]
    /\ seen_keys' = IF i <= Len(gens[g].rows) /\ InsertBeforeYield
                    THEN SeenOnResume(g) \cup {key} ELSE SeenOnResume(g)
    /\ detail_requests' = IF i <= Len(gens[g].rows)
                          THEN detail_requests \cup {[key |-> key, gen |-> g, row |-> i]}
                          ELSE detail_requests
GenKeyAt(g, i) ==
    IF i <= Len(gens[g].rows) THEN KeyOf(gen_spider, gens[g].code, gens[g].rows[i])
    ELSE <<"none", "none">>
gen_resume ==
    \E g \in 1..Len(gens) :
        /\ gens[g].pos <= Len(gens[g].rows) + 1
        /\ GenRunsTo(g, NextYield(gens[g].rows, gens[g].pos, gens[g].code, SeenOnResume(g)),
                     GenKeyAt(g, NextYield(gens[g].rows, gens[g].pos, gens[g].code,
                                           SeenOnResume(g))))
        /\ UNCHANGED <<gen_spider, notGen>>

GenNext == gen_call \/ gen_resume
InitGen == GenInit /\ DateIdle /\ CleanIdle /\ UrlIdle /\ PipeIdle /\ CrawlIdle /\ BodyIdle /\ ReportIdle /\ CodesIdle /\ BoardIdle /\ HciIdle /\ DetIdle /\ MsIdle /\ NatIdle /\ SecIdle /\ ShIdle
SpecGenerators == InitGen /\ [][GenNext]_vars

\* C22: whatever the order in which the list callbacks are resumed, no key
\* is scheduled for a detail fetch twice, and every key scheduled is in the
\* set by the time its request is yielded
C22_KeyAdmittedOnce ==
    /\ \A a, b \in detail_requests : a.key = b.key => a = b
    /\ \A a \in detail_requests : a.key \in seen_keys

\* two callbacks with the same key in their first row: the first is
\* suspended at the yield of that row, the second was resumed after it,
\* passed the key over and is suspended at the yield of its second row
C22_Witness ==
    /\ Len(gens) = 2
    /\ gens[1].rows = <<"k1", "k2">> /\ gens[2].rows = <<"k1", "k2">>
    /\ gens[1].code = gens[2].code
    /\ gens[1].pos = 2 /\ gens[2].pos = 3
    /\ detail_requests = {[key |-> KeyOf(gen_spider, gens[1].code, "k1"), gen |-> 1, row |-> 1],
                          [key |-> KeyOf(gen_spider, gens[1].code, "k2"), gen |-> 2, row |-> 2]}


\* C23: a detail request of the HCI spider ends in a record or a cutoff
\* drop, after at most the hop to the canonical URL: parse_article of a
\* canonical page does not request that page again
C23_DetailEndsInRecordOrDrop ==
    url_out.spider = "HCI" => url_out.stage \in {"scheduled", "item", "dropped"}

\* the response was the canonical page of the article, without #dic_area:
\* parse_article requested its URL again, the duplicate filter dropped the
\* request and no record was emitted
C23_Witness ==
    /\ url_out.spider = "HCI" /\ url_out.stage = "filtered"
    /\ url_req.host \in NewsHosts
    /\ url_req = CanonicalArticleUrl(ExtractOidAidFromUrl(url_req)[1],
                                     ExtractOidAidFromUrl(url_req)[2])
    /\ url_out.link = NoUrl


(***************************************************************************)
(* The detail pages of the board spider: parse_detail emits the record or  *)
(* asks for the iframe document, parse_iframe emits the record             *)
(***************************************************************************)
\* the posts parse_list scheduled, by nid
Posts == {"p1", "p2"}
PostUrl(p) == <<"board_read", p>>
\* the src of the iframe of a detail page: a document of the post itself, or
\* one document that several posts embed
IframeSrcs(p) == {<<"discussion", p>>, <<"discussion", "notice">>}
\* what a detail page holds: the text, an iframe, or neither
DetailPages(p) ==
    {[texts |-> "text", iframe_src |-> <<>>], [texts |-> "", iframe_src |-> <<>>]}
    \cup {[texts |-> "", iframe_src |-> src] : src \in IframeSrcs(p)}
\* an iframe document: its __NEXT_DATA__ (none, not JSON, or the post with
\* editor JSON, with content HTML only, with neither) and its HTML text
IframeDocs ==
    [next_data : {"none", "malformed", "sw", "html", "empty"}, body : {"iframe text", ""}]

\* the record of a post; texts "None" for null
DetRecord(p, texts) == [post |-> p, texts |-> texts]

\* parse_iframe: the texts of the one record it yields
IframeTexts(doc) ==
    IF doc.next_data = "sw" THEN "sw values"
    ELSE IF doc.next_data = "html" THEN "content html"
    ELSE IF doc.next_data = "empty" THEN "None"
    ELSE IF doc.body # "" THEN doc.body
    ELSE "None"

\* the scheduler takes a request unless it took one for the same URL before
Enqueued(req) == IF req.url \in det_fingerprints THEN {} ELSE {req}

DetInit ==
    /\ det_requests = {[cb |-> "detail", post |-> p, url |-> PostUrl(p)] : p \in Posts}
    /\ det_fingerprints = {PostUrl(p) : p \in Posts}
    /\ det_records = [p \in Posts |-> <<>>]

DetailYield(req, page) ==
    IF page.texts # ""
    THEN /\ det_records' = [det_records EXCEPT
                               ![req.post] = Append(@, DetRecord(req.post, page.texts))]
         /\ det_requests' = det_requests \ {req}
         /\ UNCHANGED det_fingerprints
    ELSE IF page.iframe_src # <<>>
    THEN /\ det_requests' = (det_requests \ {req}) \cup
                            Enqueued([cb |-> "iframe", post |-> req.post,
                                      url |-> page.iframe_src])
         /\ det_fingerprints' = det_fingerprints \cup {page.iframe_src}
         /\ UNCHANGED det_records
    ELSE /\ det_records' = [det_records EXCEPT
                               ![req.post] = Append(@, DetRecord(req.post, "None"))]
         /\ det_requests' = det_requests \ {req}
         /\ UNCHANGED det_fingerprints
parse_detail ==
    \E req \in {q \in det_requests : q.cb = "detail"} :
        \E page \in DetailPages(req.post) :
            /\ DetailYield(req, page)
            /\ UNCHANGED notDet

parse_iframe ==
    \E req \in {q \in det_requests : q.cb = "iframe"}, doc \in IframeDocs :
        /\ det_records' = [det_records EXCEPT
                              ![req.post] = Append(@, DetRecord(req.post, IframeTexts(doc)))]
        /\ det_requests' = det_requests \ {req}
        /\ UNCHANGED <<det_fingerprints, notDet>>

DetNext == parse_detail \/ parse_iframe
InitDet == DetInit /\ DateIdle /\ CleanIdle /\ UrlIdle /\ PipeIdle /\ CrawlIdle /\ BodyIdle /\ ReportIdle /\ CodesIdle /\ BoardIdle /\ HciIdle /\ GenIdle /\ MsIdle /\ NatIdle /\ SecIdle /\ ShIdle
SpecDetail == InitDet /\ [][DetNext]_vars

\* C24: when no request of the board spider is left, every post scheduled
\* from a list page has exactly one record; no post ever has two
C24_OneRecordPerPost ==
    /\ \A p \in Posts : Len(det_records[p]) <= 1
    /\ det_requests = {} => \A p \in Posts : Len(det_records[p]) = 1

\* two posts whose detail pages embed the same iframe document: the run is
\* over, the first post has its record from the iframe and the second has
\* none
C24_Witness ==
    /\ det_requests = {}
    /\ <<"discussion", "notice">> \in det_fingerprints
    /\ \E p, q \in Posts : Len(det_records[p]) = 1 /\ Len(det_records[q]) = 0

\* a post without text on its page or in its iframe has its record, with
\* texts null
C24_NullTextsRecord ==
    /\ det_requests = {}
    /\ \A p \in Posts : det_records[p] = <<DetRecord(p, "None")>>
    /\ det_fingerprints # {PostUrl(p) : p \in Posts}


(***************************************************************************)
(* The stock-code spider: one list page after the other, up to the last    *)
(* page the current page shows                                             *)
(***************************************************************************)
MaxListPage == 3
\* the code parameter of the links of the second column
CodeParams == {Samsung, <<"A", "0", "0", "1">>}
\* the page of the "last page" link of a list page, 0 when it has none, and
\* the pages of its links with a page number
RRPages == 0..MaxListPage
NumLinks == SUBSET (1..MaxListPage)

SetMax(S) == CHOOSE n \in S : \A k \in S : k <= n
\* last_page of parse_list
LastPageOf(rr, nums) ==
    IF rr # 0 THEN rr
    ELSE IF nums # {} THEN SetMax(nums)
    ELSE 1

\* the next page asked for on the last page as well
HasNextPage_Inclusive(page, last_page) == page <= last_page

\* if page < last_page
HasNextPage(page, last_page) == page < last_page

MsInit ==
    /\ ms_codes = {} /\ ms_requests = {} /\ ms_log = <<>>
    /\ ms_list = [page |-> 0, rr |-> 0, nums |-> {}, next |-> FALSE]

ms_start_requests ==
    /\ ms_log = <<>>
    /\ ms_requests' = {FirstPage}
    /\ ms_log' = <<FirstPage>>
    /\ UNCHANGED <<ms_codes, ms_list, notMs>>

MsListYield(page, codes, rr, nums, goes_on) ==
    /\ ms_codes' = ms_codes \cup {c \in codes : IsCode(c)}
    /\ ms_requests' = (ms_requests \ {page}) \cup (IF goes_on THEN {page + 1} ELSE {})
    /\ ms_log' = IF goes_on THEN Append(ms_log, page + 1) ELSE ms_log
    /\ ms_list' = [page |-> page, rr |-> rr, nums |-> nums, next |-> goes_on]
ms_parse_list ==
    \E page \in ms_requests, codes \in SUBSET CodeParams, rr \in RRPages, nums \in NumLinks :
        /\ MsListYield(page, codes, rr, nums, HasNextPage(page, LastPageOf(rr, nums)))
        /\ UNCHANGED notMs

MsNext == ms_start_requests \/ ms_parse_list
InitMs == MsInit /\ DateIdle /\ CleanIdle /\ UrlIdle /\ PipeIdle /\ CrawlIdle /\ BodyIdle /\ ReportIdle /\ CodesIdle /\ BoardIdle /\ HciIdle /\ GenIdle /\ DetIdle /\ NatIdle /\ SecIdle /\ ShIdle
SpecMarketSum == InitMs /\ [][MsNext]_vars

\* the last page a list page shows: that of its "last page" link, else the
\* largest of its page links, else 1
ShownLast ==
    IF ms_list.rr # 0 THEN ms_list.rr
    ELSE IF \E n \in ms_list.nums : TRUE
    THEN CHOOSE n \in ms_list.nums : \A k \in ms_list.nums : k <= n
    ELSE 1

\* C25: the pages are requested one after the other from page 1, each once;
\* page p + 1 is requested exactly when page p shows a last page above p, so
\* the run ends on the first page that shows no page beyond itself
C25_PagesInSequenceToTheLast ==
    /\ \A i \in 1..Len(ms_log) : ms_log[i] = i
    /\ ms_list.page > 0 =>
          /\ ms_list.next <=> ms_list.page < ShownLast
          /\ ms_list.next => ms_log[Len(ms_log)] = ms_list.page + 1
          /\ ~ms_list.next => (ms_requests = {} /\ Len(ms_log) = ms_list.page)

\* the run went through pages 1 to 3, the second page without a "last page"
\* link, and ended on page 3
C25_Witness ==
    /\ ms_log = <<1, 2, 3>> /\ ms_requests = {}
    /\ ms_list.page = 3 /\ ms_list.rr = 0 /\ ms_list.nums = {1, 2, 3}
    /\ ~ms_list.next
    /\ ms_codes = {Samsung}


(***************************************************************************)
(* Crawls without a page ceiling over a site with finitely many list pages *)
(***************************************************************************)
MaxSitePages == 2
\* the model follows the page numbers up to here
PageCap == 4
\* the rows of a list page, by their date: on or after the cutoff, before
\* it, or without a date the spider can read
RowDates == {"recent", "old", "undated"}
SitePages == SUBSET RowDates
\* the site has one to MaxSitePages list pages; for a page number beyond
\* them it answers an empty list or its last page again
Sites ==
    {[pages |-> ps, beyond |-> b] :
        ps \in UNION {[1..n -> SitePages] : n \in 1..MaxSitePages},
        b \in {"empty", "repeat"}}
Served(site, page) ==
    IF page <= Len(site.pages) THEN site.pages[page]
    ELSE IF site.beyond = "repeat" THEN site.pages[Len(site.pages)]
    ELSE {}

\* parse_finance_list: if page_has_recent
ItemNewsGoesOn(rows) == "recent" \in rows
\* board parse_list, end_page None: not (not any_newer_or_equal and
\* all_old_or_undated); a row without a date passes the cutoff
BoardListGoesOn(rows) == "recent" \in rows \/ "undated" \in rows
\* parse_archive_list, max_pages None: the page has links
ArchiveGoesOn(rows) == rows # {}
NatGoesOn(spider, rows) ==
    IF spider = "item-news" THEN ItemNewsGoesOn(rows)
    ELSE IF spider = "board" THEN BoardListGoesOn(rows)
    ELSE ArchiveGoesOn(rows)

NatInit ==
    /\ nat_spider \in {"item-news", "board", "archive"}
    /\ nat_site \in Sites
    /\ nat_requests = {} /\ nat_top = 0

\* start_requests: page 1 of the code, or of the section and date
nat_start_requests ==
    /\ nat_top = 0
    /\ nat_requests' = {FirstPage} /\ nat_top' = FirstPage
    /\ UNCHANGED <<nat_spider, nat_site, notNat>>

\* the list callback of page p: the next page, if the spider goes on
nat_parse_list ==
    \E page \in nat_requests :
        /\ nat_requests' = (nat_requests \ {page}) \cup
               (IF NatGoesOn(nat_spider, Served(nat_site, page)) /\ page < PageCap
                THEN {page + 1} ELSE {})
        /\ nat_top' = IF NatGoesOn(nat_spider, Served(nat_site, page)) /\ page < PageCap
                      THEN page + 1 ELSE nat_top
        /\ UNCHANGED <<nat_spider, nat_site, notNat>>

NatNext == nat_start_requests \/ nat_parse_list
InitNat == NatInit /\ DateIdle /\ CleanIdle /\ UrlIdle /\ PipeIdle /\ CrawlIdle /\ BodyIdle /\ ReportIdle /\ CodesIdle /\ BoardIdle /\ HciIdle /\ GenIdle /\ DetIdle /\ MsIdle /\ SecIdle /\ ShIdle
SpecNatural == InitNat /\ [][NatNext]_vars

\* C26: without a page ceiling the crawl of a code, section or date stops by
\* itself: over a site of n list pages no list page beyond n + 1 is
\* requested, also when the site answers a page number out of range with its
\* last page
C26_StopsAfterTheLastPage == nat_top <= Len(nat_site.pages) + 1

\* the site repeats its last page, which has a row that lets the spider go
\* on: the spider has gone on past the page after the last
C26_Witness ==
    /\ nat_site.beyond = "repeat"
    /\ NatGoesOn(nat_spider, nat_site.pages[Len(nat_site.pages)])
    /\ nat_top > Len(nat_site.pages) + 1

\* over a site that answers a page number out of range with an empty list
\* the crawl ends at the page after the last
C26_EmptyBeyondStops == nat_site.beyond = "empty" => nat_top <= Len(nat_site.pages) + 1


(***************************************************************************)
(* parse_section of the naver_news spiders: the headline links and the     *)
(* latest links of a section page, each list up to its counter limit, and  *)
(* the "more" links up to max_pages                                        *)
(***************************************************************************)
MaxLinks == 2
\* the model follows the section pages up to here when max_pages is None
SectionPageCap == 2
Sections == {"100", "101"}
LinkUrls == {"u1", "u2"}
\* the links of one list of a section page, no URL twice in one list
LinkLists ==
    {ls \in UNION {[1..n -> LinkUrls] : n \in 0..MaxLinks} :
        \A i, j \in 1..Len(ls) : ls[i] = ls[j] => i = j}
MaxHeadlinesArgs == {0, 1}
MaxLatestArgs == {1, 2}
\* max_pages: left out (finance_test: None, crawler: 10) or given
SecMaxPagesArgs(spider) ==
    {<<0>>, <<1>>, <<2>>} \cup (IF spider = "News" THEN {<<>>} ELSE {<<10>>})

\* the limit test that lets one link more through
AtLimit_OneMore(cnt, max) == cnt > max

\* if self.cnt_headline[section] >= self.max_headlines: break
AtLimit(cnt, max) == cnt >= max

\* the loop over the links of one list: the counter, the set and the article
\* requests after it
RECURSIVE ScanLinks(_, _, _, _, _, _)
ScanLinks(links, i, acc, section, list_type, max) ==
    IF i > Len(links) \/ AtLimit(acc.cnt, max) THEN acc
    ELSE IF links[i] \in acc.seen THEN ScanLinks(links, i + 1, acc, section, list_type, max)
    ELSE ScanLinks(links, i + 1,
                   [cnt |-> acc.cnt + 1, seen |-> acc.seen \cup {links[i]},
                    out |-> acc.out \cup {[section |-> section, list_type |-> list_type,
                                           url |-> links[i]]}],
                   section, list_type, max)

\* page_idx < self.max_pages, or max_pages None
UnderMaxPages(page_idx, ceiling) == ceiling = <<>> \/ page_idx < ceiling[1]
\* the "more" link is followed: the crawler spider also asks for room in the
\* counter
MoreFollowed(spider, more, cnt, max, page_idx, ceiling) ==
    /\ more
    /\ spider = "CrawlerNews" => cnt < max
    /\ UnderMaxPages(page_idx, ceiling)
    /\ page_idx < SectionPageCap

SectionRequest(section, page_idx, via) == [section |-> section, page_idx |-> page_idx, via |-> via]

SecInit ==
    /\ sec_spider \in {"News", "CrawlerNews"}
    /\ sec_max \in {[headlines |-> h, latest |-> l, pages |-> p] :
                      h \in MaxHeadlinesArgs, l \in MaxLatestArgs,
                      p \in SecMaxPagesArgs(sec_spider)}
    /\ cnt_headline = [s \in Sections |-> 0] /\ cnt_latest = [s \in Sections |-> 0]
    /\ seen_urls = {} /\ sec_articles = {}
    /\ sec_requests = {} /\ sec_listed = {}

\* start_requests in section mode: the first page of every section
sec_start_requests ==
    /\ sec_listed = {}
    /\ sec_requests' = {SectionRequest(s, 1, "start") : s \in Sections}
    /\ sec_listed' = {SectionRequest(s, 1, "start") : s \in Sections}
    /\ UNCHANGED <<sec_spider, sec_max, cnt_headline, cnt_latest, seen_urls, sec_articles, notSec>>

MoreRequests(req, h, l, more_headline, more_latest) ==
    (IF MoreFollowed(sec_spider, more_headline, h.cnt, sec_max.headlines, req.page_idx,
                     sec_max.pages)
     THEN {SectionRequest(req.section, req.page_idx + 1, "headline")} ELSE {})
    \cup
    (IF MoreFollowed(sec_spider, more_latest, l.cnt, sec_max.latest, req.page_idx,
                     sec_max.pages)
     THEN {SectionRequest(req.section, req.page_idx + 1, "latest")} ELSE {})
SectionYield(req, h, l, more_headline, more_latest) ==
    /\ cnt_headline' = [cnt_headline EXCEPT ![req.section] = h.cnt]
    /\ cnt_latest' = [cnt_latest EXCEPT ![req.section] = l.cnt]
    /\ seen_urls' = l.seen
    /\ sec_articles' = sec_articles \cup h.out \cup l.out
    /\ sec_requests' = (sec_requests \ {req})
                       \cup MoreRequests(req, h, l, more_headline, more_latest)
    /\ sec_listed' = sec_listed \cup MoreRequests(req, h, l, more_headline, more_latest)
HeadlineScan(req, links) ==
    ScanLinks(links, 1, [cnt |-> cnt_headline[req.section], seen |-> seen_urls, out |-> {}],
              req.section, "headline", sec_max.headlines)
LatestScan(req, links, seen) ==
    ScanLinks(links, 1, [cnt |-> cnt_latest[req.section], seen |-> seen, out |-> {}],
              req.section, "latest", sec_max.latest)
parse_section ==
    \E req \in sec_requests :
        \E headline_links \in LinkLists, latest_links \in LinkLists,
           more_headline \in BOOLEAN, more_latest \in BOOLEAN :
            /\ SectionYield(req, HeadlineScan(req, headline_links),
                            LatestScan(req, latest_links,
                                       HeadlineScan(req, headline_links).seen),
                            more_headline, more_latest)
            /\ UNCHANGED <<sec_spider, sec_max, notSec>>

SecNext == sec_start_requests \/ parse_section
InitSec == SecInit /\ DateIdle /\ CleanIdle /\ UrlIdle /\ PipeIdle /\ CrawlIdle /\ BodyIdle /\ ReportIdle /\ CodesIdle /\ BoardIdle /\ HciIdle /\ GenIdle /\ DetIdle /\ MsIdle /\ NatIdle /\ ShIdle
SpecSection == InitSec /\ [][SecNext]_vars

\* the article requests scheduled for a section and a list type
ScheduledFor(s, list_type) ==
    Cardinality({a \in sec_articles : a.section = s /\ a.list_type = list_type})
CountersInStep ==
    \A s \in DOMAIN cnt_headline :
        /\ cnt_headline[s] <= sec_max.headlines /\ cnt_latest[s] <= sec_max.latest
        /\ cnt_headline[s] = ScheduledFor(s, "headline")
        /\ cnt_latest[s] = ScheduledFor(s, "latest")

\* C27: for every section the headline counter stays within max_headlines
\* and the latest counter within max_latest, each counter is the number of
\* article requests scheduled for its section and list type, and with
\* max_pages >= 1 no section page with page_idx above max_pages is requested
C27_CountersAndPagesFromOne ==
    /\ CountersInStep
    /\ (sec_max.pages # <<>> /\ sec_max.pages[1] >= 1) =>
           \A r \in sec_listed : r.page_idx <= sec_max.pages[1]

\* both counters of a section are at their limit with links left over, and
\* the section was followed to page max_pages = 2
C27_Witness ==
    /\ sec_max = [headlines |-> 1, latest |-> 1, pages |-> <<2>>]
    /\ cnt_headline["100"] = 1 /\ cnt_latest["100"] = 1
    /\ seen_urls = LinkUrls
    /\ \E r \in sec_listed : r.section = "100" /\ r.page_idx = 2
    /\ \A r \in sec_listed : r.page_idx <= 2

\* C27 as stated, for every max_pages: the counters, and no section page
\* with page_idx above max_pages is requested
C27_CountersAndPagesForEveryMax ==
    /\ CountersInStep
    /\ sec_max.pages # <<>> => \A r \in sec_listed : r.page_idx <= sec_max.pages[1]


(***************************************************************************)
(* The finance_test item-news spider over two codes whose news lists share *)
(* articles: one articles_seen for the spider                              *)
(***************************************************************************)
MaxSharedRows == 2
MaxSharedPage == 2
SharedCodes == {Samsung, Hynix}
\* the canonical URLs of the articles of the lists; the last one is dated
\* before the cutoff wherever it is listed
SharedUrls == {"a1", "a2", "old"}
SharedPages == UNION {[1..n -> SharedUrls] : n \in 0..MaxSharedRows}
SharedPagesServed(page) ==
    IF page = FirstPage THEN SharedPages
    ELSE IF page <= MaxSharedPage THEN {rows \in SharedPages : Len(rows) <= 1}
    ELSE {<<>>}

\* a set of their own for the articles of every code
SeenKey_PerCode(code, url) == <<code, url>>

\* what goes into self.articles_seen: the article URL, whatever the code
SeenKey(code, url) == url

ShListRequest(code, page) == [cb |-> "list", code |-> code, page |-> page, url |-> "none"]
ShArticleRequest(code, url) == [cb |-> "article", code |-> code, page |-> 0, url |-> url]

\* the row loop of parse_finance_list: rows before the cutoff are passed
\* over, then the rows whose article was seen
RECURSIVE ShScanRows(_, _, _, _)
ShScanRows(rows, i, acc, code) ==
    IF i > Len(rows) THEN acc
    ELSE IF rows[i] = "old" THEN ShScanRows(rows, i + 1, acc, code)
    ELSE IF SeenKey(code, rows[i]) \in acc.seen
    THEN ShScanRows(rows, i + 1, [acc EXCEPT !.page_has_recent = TRUE], code)
    ELSE ShScanRows(rows, i + 1,
                    [page_has_recent |-> TRUE,
                     seen |-> acc.seen \cup {SeenKey(code, rows[i])},
                     out |-> acc.out \cup {ShArticleRequest(code, rows[i])}],
                    code)

\* the code that read a row of each article first, after this page
RECURSIVE FirstAfter(_, _, _, _)
FirstAfter(first, rows, i, code) ==
    IF i > Len(rows) THEN first
    ELSE IF rows[i] # "old" /\ first[rows[i]] = None
    THEN FirstAfter([first EXCEPT ![rows[i]] = code], rows, i + 1, code)
    ELSE FirstAfter(first, rows, i + 1, code)

ShInit ==
    /\ sh_seen = {} /\ sh_fetched = {} /\ sh_emitted = {}
    /\ sh_requests = {ShListRequest(code, FirstPage) : code \in SharedCodes}
    /\ sh_first = [u \in SharedUrls |-> None]

ShListYield(req, rows, r) ==
    /\ sh_seen' = r.seen
    /\ sh_requests' = (sh_requests \ {req}) \cup r.out \cup
                      (IF r.page_has_recent THEN {ShListRequest(req.code, req.page + 1)}
                       ELSE {})
    /\ sh_fetched' = sh_fetched \cup r.out
    /\ sh_first' = FirstAfter(sh_first, rows, 1, req.code)
    /\ UNCHANGED sh_emitted
sh_parse_finance_list ==
    \E req \in {q \in sh_requests : q.cb = "list"} : \E rows \in SharedPagesServed(req.page) :
        /\ ShListYield(req, rows,
                       ShScanRows(rows, 1, [page_has_recent |-> FALSE, seen |-> sh_seen,
                                            out |-> {}], req.code))
        /\ UNCHANGED notSh

\* parse_article: the record of the article, under the code of its request
sh_parse_article ==
    \E req \in {q \in sh_requests : q.cb = "article"} :
        /\ sh_emitted' = sh_emitted \cup {[url |-> req.url, stock_code |-> req.code]}
        /\ sh_requests' = sh_requests \ {req}
        /\ UNCHANGED <<sh_seen, sh_fetched, sh_first, notSh>>

ShNext == sh_parse_finance_list \/ sh_parse_article
InitSh == ShInit /\ DateIdle /\ CleanIdle /\ UrlIdle /\ PipeIdle /\ CrawlIdle /\ BodyIdle /\ ReportIdle /\ CodesIdle /\ BoardIdle /\ HciIdle /\ GenIdle /\ DetIdle /\ MsIdle /\ NatIdle /\ SecIdle
SpecSharedSeen == InitSh /\ [][ShNext]_vars

\* C28: an article listed under several codes is fetched once and has at
\* most one record, which carries the code whose list row was read first
C28_OneRecordUnderTheFirstCode ==
    /\ \A a, b \in sh_fetched : a.url = b.url => a = b
    /\ \A a \in sh_fetched : a.code = sh_first[a.url]
    /\ \A x, y \in sh_emitted : x.url = y.url => x = y
    /\ \A x \in sh_emitted : x.stock_code = sh_first[x.url]

\* article a1 is on the first page of both codes; Hynix's page was read
\* first, Samsung's page then scheduled nothing for it, and its one record
\* is Hynix's
C28_Witness ==
    /\ sh_first["a1"] = Hynix
    /\ ShListRequest(Samsung, FirstPage) \notin sh_requests
    /\ ShListRequest(Samsung, FirstPage + 1) \in sh_requests
    /\ sh_fetched = {ShArticleRequest(Hynix, "a1")}
    /\ sh_emitted = {[url |-> "a1", stock_code |-> Hynix]}


(***************************************************************************)
(* The report spider with the cutoff on a section of many short pages:     *)
(* the progress line of parse_report_list, written every ProgressEvery     *)
(* pages followed                                                          *)
(***************************************************************************)
MaxLongPage == 11

\* the pages of a long section: at most one row each, a next link on every
\* page before the last, and a last-page link on the pages that show one
LongPagesServed == {rows \in ReportPages : Len(rows) <= 1}
LongNextLinks(page) == IF page < MaxLongPage THEN BOOLEAN ELSE {FALSE}
LongLastPageLinks == {0, MaxLongPage}

\* parse_report_list on a page of the long section
parse_report_list_long ==
    \E req \in report_requests :
        \E rows \in LongPagesServed, has_next \in LongNextLinks(req.page),
           last_page \in LongLastPageLinks :
            ReportListStep(req, rows, last_page,
                           ReportScan(report_variant, req.section, rows),
                           GoesOn(report_variant, req.page,
                                  ReportScan(report_variant, req.section, rows), has_next))

LongReportNext == report_parse \/ parse_report_list_long
SpecLongReport == InitReport /\ [][LongReportNext]_vars

\* the last callback of the spider with the cutoff entered the block of the
\* next link: the page was not stale and had a next link
NextBlockEntered ==
    /\ report_variant = "cutoff"
    /\ report_list.section \notin {"none", "nav"}
    /\ ~report_list.stop_crawling
    /\ report_list.next \/ report_list.raised = "ZeroDivisionError"
\* the progress line was written in that block
ProgressComputed ==
    /\ NextBlockEntered
    /\ pages_processed % ProgressEvery = 0 \/ pages_processed = total_pages

\* C30: in the spider with the cutoff the progress line never blocks
\* pagination: whenever it is computed total_pages is greater than zero, no
\* callback ends in a division by zero, and a page that is not stale and has
\* a next link always has the request of its next page issued, also when no
\* page showed a last-page link.
C30_ProgressNeverBlocksPagination ==
    /\ ProgressComputed => total_pages > 0
    /\ report_list.raised # "ZeroDivisionError"
    /\ NextBlockEntered =>
          ReportListRequest(report_list.section, report_list.page + 1) \in report_requests

\* the tenth page followed of a section that never showed a last-page link:
\* the progress line divides by zero and the next page is not requested
C30_Witness ==
    /\ report_variant = "cutoff"
    /\ report_list.page = ProgressEvery /\ ~report_list.stop_crawling
    /\ pages_processed = ProgressEvery /\ total_pages = 0
    /\ report_list.raised = "ZeroDivisionError"
    /\ report_requests = {}

\* with a last-page link on the first page of the section the progress line
\* never raises
C30_TotalKnownNeverRaises ==
    total_pages > 0 => report_list.raised # "ZeroDivisionError"

====
